---- MODULE Spec2Model ----
(***************************************************************************)
(* Model of the kolesa-dwh ingestion core: the ctl.scrape_queue work queue, *)
(* the enqueue of discover_pages_to_db and the batch worker                 *)
(* fetch_and_process_batch with fetch_single_listing, update_state and      *)
(* schedule_retry (src/src/extract/fetch_listing.py), and the silver tables  *)
(* written by upsert_silver (src/src/transform/silver_upsert.py) and         *)
(* mark_silver_inactive.                                                     *)
(*                                                                           *)
(* Spec        the queue under concurrent batch invocations; the silver      *)
(*             tables are outside its state                                  *)
(* PipeSpec    one batch invocation at a time, with the silver tables        *)
(* UpsertSpec  calls of upsert_silver, mark_silver_inactive and             *)
(*             enrich_views_for_today                                        *)
(* BackoffSpec the backoff of schedule_retry over attempt counts up to the   *)
(*             cap                                                           *)
(* DiscoverSpec the page scan of discover_pages_to_db with the retries of    *)
(*             fetch_html                                                    *)
(* PoolSpec    the thread pool of fetch_listings_batch with a shared         *)
(*             seen_ids set                                                  *)
(* DetectSpec  single calls of detect_blocking over small pages              *)
(* ParseSpec   single calls of parse_listing over small pages                *)
(* PriceSpec   upserts with successive timestamps and the price history      *)
(* DagSpec     the fetch_details task of the pipeline DAG                    *)
(* FetchSpec   direct calls of fetch_single_listing with its flags           *)
(***************************************************************************)
EXTENDS Integers, Sequences, FiniteSets, TLC

\* ------------------------------------------------------------------ bounds
NumIds == 2          \* listing ids 1..NumIds
NumWorkers == 2      \* concurrently running batch invocations
MaxTime == 2         \* the clock (in minutes) runs 0..MaxTime
MaxCalls == 2        \* invocations of fetch_and_process_batch started in a run
MaxBatch == 2        \* batch_size is drawn from 1..MaxBatch
MaxPrice == 2        \* prices of a record: NULL or 1..MaxPrice
MaxDay == 1          \* the calendar date runs 0..MaxDay
MaxTs == 1           \* fetched_at of a direct upsert_silver call: 0..MaxTs
MaxOps == 3          \* direct calls of the silver operations in a run
MaxAttempts == 12    \* attempt counts of the backoff: 0..MaxAttempts
MaxPhotos == 1       \* photo_count of a record: 0..MaxPhotos
MaxViews == 1        \* view counts the views API answers: 0..MaxViews
TicksPerDay == 2     \* timestamps of fetched_at per calendar date
MaxPage == 3         \* index pages are numbered 1..MaxPage
MaxScans == 2        \* runs of discover_pages_to_db
MaxListLen == 3      \* length of the listing_ids of a fetch_listings_batch call
MaxConcurrency == 2  \* max_workers of the pool: 1..MaxConcurrency
MaxPoolCalls == 2    \* calls of fetch_listings_batch with one seen_ids set
MaxBodyLen == 2      \* words of a page outside its title
MaxLines == 3        \* text lines of a page handed to parse_listing
MaxFetches == 2      \* direct calls of fetch_single_listing in a run

Ids == 1..NumIds
Workers == 1..NumWorkers

\* ------------------------------------------------------- program constants
NULL == -1                   \* SQL NULL / Python None in an integer column
BackoffCapMinutes == 1440    \* 60*24, "Cap at 1 day"
MinutesPerDay == 1440        \* one day, in the minutes of timedelta(minutes=...)
StopAfterAttempt == 3        \* @retry(stop=stop_after_attempt(3)) of fetch_html
ShortPageLen == 5000         \* "if len(html) < 5000"
SmallPageLen == 20000        \* "cf-ray" in html_lower and len(html) < 20000

VARIABLES
    queue,            \* ctl.scrape_queue: listing_id -> row (present rows only)
    lockedBy,         \* row locks of open claim transactions: id -> worker, 0 = free
    now,              \* NOW() / datetime.now(), in minutes
    pc,               \* position of each invocation of fetch_and_process_batch
    items,            \* the rows returned by cur.fetchall() of the claim
    idx,              \* loop index of enumerate(items, start=1)
    processed_count,  \* number of entries set to FETCHED by the invocation
    calls,            \* invocations started so far
    inserted,         \* return value of the last discover_pages_to_db
    current,          \* silver.listing_current: listing_id -> row
    daily,            \* silver.listing_snapshot_daily: <<listing_id, date>> -> row
    events,           \* silver.listing_price_event: set of rows
    today,            \* date.today() / CURRENT_DATE
    last_op,          \* the last direct call of a silver operation, << >> if none
    ops,              \* direct calls of the silver operations so far
    answers,          \* what the fetches of the running invocation met, per entry
    bo,               \* attempt counts and the retry delays computed for them
    dpc,              \* position of discover_pages_to_db: "idle", "fetch", "insert"
    page,             \* loop variable of "for page in range(page_from, page_to + 1)"
    page_range,       \* <<page_from, page_to>> of the running scan
    attempt,          \* attempt number of the running fetch_html call (tenacity)
    all_ids,          \* the set all_ids of the running scan
    requests,         \* the index-page requests of the scan and what they met
    scans,            \* scans started so far
    mpc,              \* position of fetch_listings_batch: "idle", "loop", "exit"
    listing_ids,      \* the listing_ids of the running fetch_listings_batch call
    max_workers,      \* ThreadPoolExecutor(max_workers=concurrency)
    futures,          \* state of the future of each submitted fetch_one
    handled,          \* futures the as_completed loop has taken
    seen_ids,         \* the seen_ids set the caller passes to every call
    fetch_count,      \* fetch_single_listing calls started so far, per id
    late_started,     \* futures of the call started after one had raised blocking
    persisted,        \* ids fetch_single_listing has stored (use_db=True)
    pool_result,      \* how the last call ended: "returned", "raised", "none"
    pool_calls,       \* calls of fetch_listings_batch so far
    summary_logged,   \* stats.log_summary() has run in the last invocation
    det,              \* the last call of detect_blocking: html, url, result
    parse_log,        \* the last call of parse_listing: html, url, listing_id, result
    observed,         \* per listing, the last non-null price passed to upsert_silver
    dagpc,            \* where the fetch_details task stands
    discovered_count, \* fetch_details: the number of listings it sets out to fetch
    remaining_to_process, \* fetch_details: the loop variable
    batch_num,        \* fetch_details: batch invocations made so far
    batch_size,       \* fetch_details: the batch size of the task
    archive,          \* the objects of the raw archive bucket
    bronze,           \* the rows of bronze.raw_listing_html
    counts,           \* the counts of the StatsCollector passed to the fetches
    fetch_log,        \* the last direct call of fetch_single_listing
    fetches           \* direct calls of fetch_single_listing so far

vars == <<queue, lockedBy, now, pc, items, idx, processed_count, calls, inserted,
          current, daily, events, today, last_op, ops, answers, bo,
          dpc, page, page_range, attempt, all_ids, requests, scans,
          mpc, listing_ids, max_workers, futures, handled, seen_ids, fetch_count,
          late_started, persisted, pool_result, pool_calls, summary_logged,
          det, parse_log, observed, dagpc, discovered_count, remaining_to_process,
          batch_num, batch_size, archive, bronze, counts, fetch_log, fetches>>

\* the variables of the queue and of the batch invocations
qvars == <<queue, lockedBy, now, pc, items, idx, processed_count, calls, inserted>>

\* the silver tables
svars == <<current, daily, events>>

\* everything outside the queue and the batch invocations
ovars == <<current, daily, events, today, last_op, ops, answers, bo>>

wvars == <<pc, items, idx, processed_count, calls>>

\* the discovery scan
dvars == <<dpc, page, page_range, attempt, all_ids, requests, scans>>

\* the worker pool of fetch_listings_batch
pvars == <<mpc, listing_ids, max_workers, futures, handled, seen_ids, fetch_count,
           late_started, persisted, pool_result, pool_calls>>

\* the summary flag and the logs of the calls of the pure functions
zvars == <<summary_logged, det>>

\* the fetch_details task of the pipeline DAG
gvars == <<dagpc, discovered_count, remaining_to_process, batch_num, batch_size>>

\* the stores and the statistics of direct calls of fetch_single_listing
fvars == <<archive, bronze, counts, fetch_log, fetches>>

\* the parser log, the price history, the DAG task and the direct fetches
yvars == <<parse_log, observed, gvars, fvars>>

\* everything outside the queue, the batch invocations and the silver calls
xvars == <<dvars, pvars, zvars, yvars>>

\* ---------------------------------------------------------------- helpers
RECURSIVE Pow2(_)
Pow2(n) == IF n <= 0 THEN 1 ELSE 2 * Pow2(n - 1)

Min(a, b) == IF a <= b THEN a ELSE b

\* f"{base_url}/a/show/{listing_id}": the url is determined by the id
Url(lid) == lid

\* row created by INSERT INTO ctl.scrape_queue(listing_id, url): column defaults
NewRow(lid) ==
    [state |-> "NEW", attempts |-> 0, next_retry_at |-> NULL,
     last_attempt_at |-> NULL, last_http_status |-> NULL,
     last_error |-> "NULL", url |-> Url(lid)]

\* variant: the retry time is not compared with NOW()
Eligible_IgnoresRetryTime(row, t) ==
    row.state \in {"NEW", "RETRY"}

\* WHERE state IN ('NEW','RETRY') AND (next_retry_at IS NULL OR next_retry_at <= NOW())
Eligible(row, t) ==
    /\ row.state \in {"NEW", "RETRY"}
    /\ (row.next_retry_at = NULL \/ row.next_retry_at <= t)

\* sequences of distinct elements of S of length n (an arbitrary row order)
DistinctSeqs(S, n) ==
    {s \in [1..n -> S] : \A i, j \in 1..n : i # j => s[i] # s[j]}

\* rows a claim can return: eligible, not locked by another transaction, LIMIT n
Claimable(q, locks, t) ==
    {i \in DOMAIN q : Eligible(q[i], t) /\ locks[i] = 0}

ClaimResults(q, locks, t, n) ==
    LET c == Claimable(q, locks, t)
        k == Min(n, Cardinality(c))
    IN  {[j \in 1..k |-> [listing_id |-> s[j], url |-> q[s[j]].url,
                           attempts |-> q[s[j]].attempts]] : s \in DistinctSeqs(c, k)}

\* ------------------------------------------------------ queue operations
\* variant: ON CONFLICT (listing_id) DO UPDATE, the row is reset
InsertOnConflictDoUpdate(q, S) ==
    [i \in (DOMAIN q) \cup S |->
        IF i \in S THEN [state |-> "NEW", attempts |-> 0, next_retry_at |-> NULL,
                         last_attempt_at |-> NULL, last_http_status |-> NULL,
                         last_error |-> "NULL", url |-> i]
        ELSE q[i]]

\* discover_pages_to_db: INSERT ... ON CONFLICT (listing_id) DO NOTHING
InsertOnConflictDoNothing(q, S) ==
    [i \in (DOMAIN q) \cup S |-> IF i \in DOMAIN q THEN q[i] ELSE NewRow(i)]

\* UPDATE ... SET last_attempt_at = NOW(), attempts = attempts + 1
mark_attempt(q, lid, t) ==
    [q EXCEPT ![lid] = [@ EXCEPT !.last_attempt_at = t,
                                 !.attempts = @ + 1]]

update_state(q, lid, state, status, error) ==
    [q EXCEPT ![lid] = [@ EXCEPT !.state = state,
                                 !.last_http_status = status,
                                 !.last_error = error,
                                 !.next_retry_at = NULL]]

\* variant: no cap
backoff_minutes_Uncapped(attempts) == Pow2(attempts)

backoff_minutes(attempts) == Min(Pow2(attempts), BackoffCapMinutes)

\* variant: the retry time is not set
schedule_retry_KeepsRetryTime(q, lid, attempts, status, error, t) ==
    [q EXCEPT ![lid] = [@ EXCEPT !.state = "RETRY",
                                 !.attempts = attempts,
                                 !.last_http_status = status,
                                 !.last_error = error]]

schedule_retry(q, lid, attempts, status, error, t) ==
    [q EXCEPT ![lid] = [@ EXCEPT !.state = "RETRY",
                                 !.attempts = attempts,
                                 !.last_http_status = status,
                                 !.last_error = error,
                                 !.next_retry_at = t + backoff_minutes(attempts)]]

\* --------------------------------------------------- fetch_single_listing
\* what can happen to one fetch with use_db = use_s3 = True
\* "markfail": status 404 and mark_silver_inactive raises;
\* "updatefail": the fetch succeeds and update_state raises afterwards
Outcomes == {"ok", "notfound", "httperr", "timeout", "blocked", "upsertfail",
             "markfail", "updatefail"}

\* the value fetch_single_listing hands to its caller:
\* "parsed" (a record), "none" (None) or "blocked" (BlockingDetectedError raised)
fetch_single_listing(o) ==
    IF o = "timeout" THEN "none"            \* navigation raises; except Exception: return None
    ELSE IF o = "blocked" THEN "blocked"    \* detect_blocking; raise, re-raised by the handler
    ELSE IF o = "notfound" THEN "none"      \* status == 404: return None
    ELSE IF o = "httperr" THEN "none"       \* raise Exception("HTTP ..."); except: return None
    ELSE IF o = "upsertfail" THEN "none"    \* upsert_silver raises; except: return None
    ELSE IF o = "markfail" THEN "none"      \* mark_silver_inactive raises; except: return None
    ELSE "parsed"

\* what the loop body records for the entry: the result of fetch_single_listing,
\* or "exc" when update_state raises ("except Exception" of the loop)
LoopResult(o) == IF o = "updatefail" THEN "exc" ELSE fetch_single_listing(o)

\* ------------------------------------------------------------ silver tables
Prices == 1..MaxPrice

\* a parsed record, as far as upsert_silver stores it in the rows below
PhotoCounts == 0..MaxPhotos

Records == [listing_id : Ids, price_kzt : Prices \cup {NULL},
            photo_count : PhotoCounts]

\* records that lack the key listing_id
RecordsWithoutId == [price_kzt : Prices \cup {NULL}]

\* fetched_at.tzinfo of a call: a timezone, or None for a naive datetime
TzInfos == {"UTC", "None"}

\* the three tables as one value
Silver(c, d, e) == [current |-> c, daily |-> d, events |-> e]

\* f with the row v stored under key k
Put(f, k, v) == [x \in (DOMAIN f) \cup {k} |-> IF x = k THEN v ELSE f[x]]

\* the unique key of silver.listing_price_event: "duplicate events for the
\* same (listing, timestamp) are suppressed"
PriceEventKey(row) == <<row.listing_id, row.event_ts>>

\* variant: the event insert has no ON CONFLICT clause
InsertPriceEvent_NoConflictClause(e, row) == e \cup {row}

\* INSERT INTO silver.listing_price_event ... ON CONFLICT DO NOTHING:
\* a row with the same key suppresses the insert
InsertPriceEvent(e, row) ==
    IF \E x \in e : PriceEventKey(x) = PriceEventKey(row)
    THEN e
    ELSE e \cup {row}

\* variant: ON CONFLICT (listing_id) DO UPDATE also sets first_seen_at
UpsertCurrent_OverwritesFirstSeen(c, listing, first_seen, fetched_at) ==
    Put(c, listing.listing_id,
        [price_kzt |-> listing.price_kzt, first_seen_at |-> fetched_at,
         last_seen_at |-> fetched_at, is_active |-> TRUE])

\* INSERT INTO silver.listing_current ... ON CONFLICT (listing_id) DO UPDATE SET
\* every attribute, last_seen_at, is_active = TRUE; first_seen_at is not in the SET
UpsertCurrent(c, listing, first_seen, fetched_at) ==
    IF listing.listing_id \in DOMAIN c
    THEN [c EXCEPT ![listing.listing_id] =
             [@ EXCEPT !.price_kzt = listing.price_kzt,
                       !.last_seen_at = fetched_at,
                       !.is_active = TRUE]]
    ELSE Put(c, listing.listing_id,
             [price_kzt |-> listing.price_kzt, first_seen_at |-> first_seen,
              last_seen_at |-> fetched_at, is_active |-> TRUE])

\* variant: the daily snapshot is only updated, never inserted
UpsertDaily_UpdateOnly(d, listing, snapshot_date) ==
    LET k == <<listing.listing_id, snapshot_date>> IN
    IF k \in DOMAIN d
    THEN [d EXCEPT ![k] = [@ EXCEPT !.price_kzt = listing.price_kzt,
                                    !.is_active = TRUE,
                                    !.photo_count = listing.photo_count]]
    ELSE d

\* variant: views is in the SET list of the ON CONFLICT clause (EXCLUDED.views)
UpsertDaily_ResetsViews(d, listing, snapshot_date) ==
    Put(d, <<listing.listing_id, snapshot_date>>,
        [price_kzt |-> listing.price_kzt, is_active |-> TRUE,
         views |-> NULL, photo_count |-> listing.photo_count])

\* INSERT INTO silver.listing_snapshot_daily ... VALUES (.., TRUE, NULL, ..)
\* ON CONFLICT (listing_id, snapshot_date) DO UPDATE SET price_kzt,
\* is_active = TRUE, photo_count; views is not in the SET list
UpsertDaily(d, listing, snapshot_date) ==
    LET k == <<listing.listing_id, snapshot_date>> IN
    IF k \in DOMAIN d
    THEN [d EXCEPT ![k] = [@ EXCEPT !.price_kzt = listing.price_kzt,
                                    !.is_active = TRUE,
                                    !.photo_count = listing.photo_count]]
    ELSE Put(d, k, [price_kzt |-> listing.price_kzt, is_active |-> TRUE,
                    views |-> NULL, photo_count |-> listing.photo_count])

\* the statements of upsert_silver inside "with wh_conn() as conn", the first
\* k of its three writes done (uncommitted): the SELECT of the old row, the
\* price event (1), listing_current (2), today's daily snapshot (3)
UpsertStatements(S, listing, fetched_at, date_today, k) ==
    LET lid == listing.listing_id
        old_price == IF lid \in DOMAIN S.current THEN S.current[lid].price_kzt ELSE NULL
        first_seen == IF lid \in DOMAIN S.current
                      THEN S.current[lid].first_seen_at ELSE fetched_at
        new_price == listing.price_kzt
        e == IF k >= 1 /\ old_price # NULL /\ new_price # NULL /\ old_price # new_price
             THEN InsertPriceEvent(S.events,
                      [listing_id |-> lid, event_ts |-> fetched_at,
                       old_price_kzt |-> old_price, new_price_kzt |-> new_price])
             ELSE S.events
        c == IF k >= 2 THEN UpsertCurrent(S.current, listing, first_seen, fetched_at)
             ELSE S.current
        d == IF k >= 3 THEN UpsertDaily(S.daily, listing, date_today) ELSE S.daily
    IN  Silver(c, d, e)

\* variant: the connection commits what was written when the block raises
wh_conn_CommitsOnError(S, Stx, failed) == Stx

\* wh_conn: conn.commit() when the block ends, conn.rollback() and re-raise
\* when it raises: what is stored after a transaction that took S to Stx
wh_conn(S, Stx, failed) == IF failed THEN S ELSE Stx

\* variant: a naive fetched_at is let through
upsert_silver_validation_AcceptsNaive(listing, tzinfo) ==
    IF "listing_id" \notin DOMAIN listing THEN "KeyError" ELSE "ok"

\* the checks at the head of upsert_silver, before "with wh_conn()":
\* "listing_id" not in listing -> KeyError, then fetched_at.tzinfo is None
\* -> ValueError
upsert_silver_validation(listing, tzinfo) ==
    IF "listing_id" \notin DOMAIN listing THEN "KeyError"
    ELSE IF tzinfo = "None" THEN "ValueError"
    ELSE "ok"

\* upsert_silver(listing, fetched_at) on the date date_today
upsert_silver(S, listing, fetched_at, date_today) ==
    wh_conn(S, UpsertStatements(S, listing, fetched_at, date_today, 3), FALSE)

\* upsert_silver when the statement after its first k writes raises
upsert_silver_raises(S, listing, fetched_at, date_today, k) ==
    wh_conn(S, UpsertStatements(S, listing, fetched_at, date_today, k), TRUE)

\* the statements of mark_silver_inactive: two UPDATEs ... SET is_active = FALSE,
\* of the listing_current row and of the daily snapshot row of CURRENT_DATE
InactiveStatements(S, lid, date_today) ==
    Silver([i \in DOMAIN S.current |->
               IF i = lid THEN [S.current[i] EXCEPT !.is_active = FALSE]
               ELSE S.current[i]],
           [k \in DOMAIN S.daily |->
               IF k = <<lid, date_today>> THEN [S.daily[k] EXCEPT !.is_active = FALSE]
               ELSE S.daily[k]],
           S.events)

\* mark_silver_inactive(listing_id) on the date date_today
mark_silver_inactive(S, lid, date_today) ==
    wh_conn(S, InactiveStatements(S, lid, date_today), FALSE)

\* mark_silver_inactive when one of its UPDATEs or the commit raises
mark_silver_inactive_raises(S, lid, date_today) ==
    wh_conn(S, InactiveStatements(S, lid, date_today), TRUE)

\* the silver tables after fetch_single_listing(listing_id, url, use_db=True)
\* met outcome o with a page of the given price and no photos, at fetched_at
\* on date_today
FetchWrites(S, lid, o, price, fetched_at, date_today) ==
    LET parsed == [listing_id |-> lid, price_kzt |-> price, photo_count |-> 0] IN
    IF o \in {"ok", "updatefail"} THEN upsert_silver(S, parsed, fetched_at, date_today)
    ELSE IF o = "upsertfail"
         THEN upsert_silver_raises(S, parsed, fetched_at, date_today, 3)
    ELSE IF o = "notfound" THEN mark_silver_inactive(S, lid, date_today)
    ELSE IF o = "markfail" THEN mark_silver_inactive_raises(S, lid, date_today)
    ELSE S

\* ------------------------------------------------------------------- Init
Init ==
    /\ queue = << >>
    /\ lockedBy = [i \in Ids |-> 0]
    /\ now = 0
    /\ pc = [w \in Workers |-> "idle"]
    /\ items = [w \in Workers |-> << >>]
    /\ idx = [w \in Workers |-> 0]
    /\ processed_count = [w \in Workers |-> 0]
    /\ calls = 0
    /\ inserted = 0
    /\ current = << >>
    /\ daily = << >>
    /\ events = {}
    /\ today = 0
    /\ last_op = << >>
    /\ ops = 0
    /\ answers = << >>
    /\ bo = << >>
    /\ dpc = "idle"
    /\ page = 0
    /\ page_range = <<0, 0>>
    /\ attempt = 0
    /\ all_ids = {}
    /\ requests = << >>
    /\ scans = 0
    /\ mpc = "idle"
    /\ listing_ids = << >>
    /\ max_workers = 0
    /\ futures = << >>
    /\ handled = {}
    /\ seen_ids = {}
    /\ fetch_count = [i \in Ids |-> 0]
    /\ late_started = {}
    /\ persisted = {}
    /\ pool_result = "none"
    /\ pool_calls = 0
    /\ summary_logged = FALSE
    /\ det = << >>
    /\ parse_log = << >>
    /\ observed = [i \in Ids |-> NULL]
    /\ dagpc = "idle"
    /\ discovered_count = 0
    /\ remaining_to_process = 0
    /\ batch_num = 0
    /\ batch_size = 0
    /\ archive = {}
    /\ bronze = {}
    /\ counts = [fetched |-> 0, parsed |-> 0, failed |-> 0, blocked |-> 0]
    /\ fetch_log = << >>
    /\ fetches = 0

\* ---------------------------------------------------------------- actions
\* the clock advances
Tick ==
    /\ now < MaxTime
    /\ now' = now + 1
    /\ UNCHANGED <<queue, lockedBy, wvars, inserted>>

\* discover_pages_to_db, insert part ("if all_ids:"): one transaction over all
\* collected ids; returns the number of rows inserted
Enqueue(S) ==
    /\ S # {}
    /\ queue' = InsertOnConflictDoNothing(queue, S)
    /\ inserted' = Cardinality(S \ DOMAIN queue)
    /\ UNCHANGED <<lockedBy, now, wvars>>

\* fetch_and_process_batch, claim: SELECT ... LIMIT n FOR UPDATE SKIP LOCKED; fetchall()
ClaimSelect(w, n) ==
    /\ pc[w] = "idle"
    /\ calls < MaxCalls
    /\ \E its \in ClaimResults(queue, lockedBy, now, n) :
          /\ items' = [items EXCEPT ![w] = its]
          /\ lockedBy' = [i \in Ids |->
                IF \E j \in 1..Len(its) : its[j].listing_id = i THEN w ELSE lockedBy[i]]
    /\ pc' = [pc EXCEPT ![w] = "claimed"]
    /\ calls' = calls + 1
    /\ UNCHANGED <<queue, now, idx, processed_count, inserted>>

\* leaving "with wh_conn()": conn.commit() releases the row locks;
\* "if not items: return 0", else the loop starts
ClaimCommit(w) ==
    /\ pc[w] = "claimed"
    /\ lockedBy' = [i \in Ids |-> IF lockedBy[i] = w THEN 0 ELSE lockedBy[i]]
    /\ IF items[w] = << >>
       THEN /\ pc' = [pc EXCEPT ![w] = "done"]
            /\ idx' = idx
       ELSE /\ pc' = [pc EXCEPT ![w] = "mark"]
            /\ idx' = [idx EXCEPT ![w] = 1]
    /\ UNCHANGED <<queue, now, items, processed_count, calls, inserted>>

CurrentItem(w) == items[w][idx[w]]

\* variant: no "break" after a blocking detection
AfterRecord_NoBreak(w, res) ==
    IF idx[w] >= Len(items[w])
    THEN [pc |-> "done", idx |-> idx[w]]
    ELSE [pc |-> "mark", idx |-> idx[w] + 1]

\* variant: "except Exception" leaves the loop as well
AfterRecord_BreakOnException(w, res) ==
    IF res \in {"blocked", "exc"} \/ idx[w] >= Len(items[w])
    THEN [pc |-> "done", idx |-> idx[w]]
    ELSE [pc |-> "mark", idx |-> idx[w] + 1]

\* where the loop goes after the outcome of an entry is recorded:
\* "break" on BlockingDetectedError, the next entry otherwise
AfterRecord(w, res) ==
    IF res = "blocked" \/ idx[w] >= Len(items[w])
    THEN [pc |-> "done", idx |-> idx[w]]
    ELSE [pc |-> "mark", idx |-> idx[w] + 1]

\* variant: schedule_retry adds to the attempts the row holds
RecordedQueue_RetryAddsAttempt(w, res) ==
    LET it == CurrentItem(w) IN
    IF res = "parsed" THEN update_state(queue, it.listing_id, "FETCHED", 200, "NULL")
    ELSE IF res = "none" THEN update_state(queue, it.listing_id, "INACTIVE", 404, "NULL")
    ELSE schedule_retry(queue, it.listing_id, queue[it.listing_id].attempts + 1, 0,
                        "exception", now)

\* the queue after the outcome of the current entry is recorded:
\* "parsed" -> FETCHED, None -> INACTIVE ("404 or parse failure"),
\* BlockingDetectedError / Exception -> schedule_retry(attempts + 1)
RecordedQueue(w, res) ==
    LET it == CurrentItem(w) IN
    IF res = "parsed" THEN update_state(queue, it.listing_id, "FETCHED", 200, "NULL")
    ELSE IF res = "none" THEN update_state(queue, it.listing_id, "INACTIVE", 404, "NULL")
    ELSE IF res = "blocked"
         THEN schedule_retry(queue, it.listing_id, it.attempts + 1, 0, "Blocking detected", now)
    ELSE schedule_retry(queue, it.listing_id, it.attempts + 1, 0, "exception", now)

\* the rest of the loop body for a result res: record it, then continue or break
Record(w, res) ==
    /\ lockedBy[CurrentItem(w).listing_id] = 0
    /\ queue' = RecordedQueue(w, res)
    /\ processed_count' = [processed_count EXCEPT ![w] =
                              IF res = "parsed" THEN @ + 1 ELSE @]
    /\ pc' = [pc EXCEPT ![w] = AfterRecord(w, res).pc]
    /\ idx' = [idx EXCEPT ![w] = AfterRecord(w, res).idx]
    /\ UNCHANGED <<lockedBy, now, items, calls, inserted>>

\* "Update attempt tracking before processing"; the UPDATE waits for a row lock
MarkAttempt(w) ==
    /\ pc[w] = "mark"
    /\ lockedBy[CurrentItem(w).listing_id] = 0
    /\ queue' = mark_attempt(queue, CurrentItem(w).listing_id, now)
    /\ pc' = [pc EXCEPT ![w] = "fetch"]
    /\ UNCHANGED <<lockedBy, now, items, idx, processed_count, calls, inserted>>

\* the attempt-tracking transaction raises (wh_conn rolls back and re-raises):
\* "except Exception" of the loop body schedules the retry
MarkAttemptFails(w) ==
    /\ pc[w] = "mark"
    /\ Record(w, "exc")

\* parsed = fetch_single_listing(listing_id, url, use_db=True, use_s3=True, ...)
\* with outcome o, followed by the recording of its result
FetchAndRecord(w, o) ==
    /\ pc[w] = "fetch"
    /\ Record(w, LoopResult(o))

\* "return processed_count": the invocation is over, its locals are gone
Return(w) ==
    /\ pc[w] = "done"
    /\ pc' = [pc EXCEPT ![w] = "idle"]
    /\ items' = [items EXCEPT ![w] = << >>]
    /\ idx' = [idx EXCEPT ![w] = 0]
    /\ processed_count' = [processed_count EXCEPT ![w] = 0]
    /\ UNCHANGED <<queue, lockedBy, now, calls, inserted>>

\* the queue under concurrent invocations; the silver tables, the date and the
\* log of answers are not followed here (PipeSpec follows them)
Next ==
    \/ Tick /\ UNCHANGED <<ovars, xvars>>
    \/ \E S \in SUBSET Ids : Enqueue(S) /\ UNCHANGED <<ovars, xvars>>
    \/ \E w \in Workers, n \in 1..MaxBatch : ClaimSelect(w, n) /\ UNCHANGED <<ovars, xvars>>
    \/ \E w \in Workers : ClaimCommit(w) /\ UNCHANGED <<ovars, xvars>>
    \/ \E w \in Workers : MarkAttempt(w) /\ UNCHANGED <<ovars, xvars>>
    \/ \E w \in Workers : MarkAttemptFails(w) /\ UNCHANGED <<ovars, xvars>>
    \/ \E w \in Workers, o \in Outcomes : FetchAndRecord(w, o) /\ UNCHANGED <<ovars, xvars>>
    \/ \E w \in Workers : Return(w) /\ UNCHANGED <<ovars, xvars>>

Spec == Init /\ [][Next]_vars

\* ------------------------------------------- direct calls on the silver tables
SilverNow == Silver(current, daily, events)

SetSilver(S) ==
    /\ current' = S.current
    /\ daily' = S.daily
    /\ events' = S.events

\* the calendar date advances
NewDay ==
    /\ today < MaxDay
    /\ today' = today + 1
    /\ UNCHANGED <<qvars, svars, last_op, ops, answers, bo, xvars>>

\* upsert_silver(listing, fetched_at) returns
Upsert(listing, fetched_at) ==
    /\ ops < MaxOps
    /\ ops' = ops + 1
    /\ last_op' = [op |-> "upsert", listing |-> listing, fetched_at |-> fetched_at,
                   raised |-> FALSE, writes |-> 3]
    /\ SetSilver(upsert_silver(SilverNow, listing, fetched_at, today))
    /\ UNCHANGED <<qvars, today, answers, bo, xvars>>

\* upsert_silver(listing, fetched_at) raises after k of its writes: the SELECT
\* or the event insert fails (0), the listing_current upsert fails (1), the
\* daily upsert fails (2), the commit fails (3); "except Exception: ... raise"
UpsertRaises(listing, fetched_at, k) ==
    /\ ops < MaxOps
    /\ ops' = ops + 1
    /\ last_op' = [op |-> "upsert", listing |-> listing, fetched_at |-> fetched_at,
                   raised |-> TRUE, writes |-> k]
    /\ SetSilver(upsert_silver_raises(SilverNow, listing, fetched_at, today, k))
    /\ UNCHANGED <<qvars, today, answers, bo, xvars>>

\* upsert_silver(listing, fetched_at) raises KeyError or ValueError from its
\* checks, before it opens a connection
UpsertRejected(listing, fetched_at, tzinfo) ==
    /\ ops < MaxOps
    /\ last_op' = [op |-> "rejected",
                   error |-> upsert_silver_validation(listing, tzinfo)]
    /\ ops' = ops + 1
    /\ UNCHANGED <<qvars, svars, today, answers, bo, xvars>>

\* a call upsert_silver(listing, fetched_at), fetched_at with the given tzinfo
UpsertCall(listing, fetched_at, tzinfo) ==
    IF upsert_silver_validation(listing, tzinfo) = "ok"
    THEN Upsert(listing, fetched_at)
    ELSE UpsertRejected(listing, fetched_at, tzinfo)

\* enrich_views_for_today(): the rows of today with views IS NULL are selected,
\* the views API answers the counts vm of some of them, and
\* UPDATE ... SET views WHERE listing_id AND snapshot_date = today stores them
EnrichViews(vm) ==
    /\ ops < MaxOps
    /\ DOMAIN vm # {}
    /\ \A i \in DOMAIN vm : <<i, today>> \in DOMAIN daily /\ daily[<<i, today>>].views = NULL
    /\ daily' = [k \in DOMAIN daily |->
                    IF k[2] = today /\ k[1] \in DOMAIN vm
                    THEN [daily[k] EXCEPT !.views = vm[k[1]]]
                    ELSE daily[k]]
    /\ last_op' = [op |-> "enrich"]
    /\ ops' = ops + 1
    /\ UNCHANGED <<qvars, current, events, today, answers, bo, xvars>>

\* mark_silver_inactive(listing_id) returns
MarkInactive(lid) ==
    /\ ops < MaxOps
    /\ SetSilver(mark_silver_inactive(SilverNow, lid, today))
    /\ last_op' = [op |-> "inactive", listing_id |-> lid]
    /\ ops' = ops + 1
    /\ UNCHANGED <<qvars, today, answers, bo, xvars>>

UpsertNext ==
    \/ NewDay
    \/ \E listing \in Records \cup RecordsWithoutId, t \in 0..MaxTs, tz \in TzInfos :
          UpsertCall(listing, t, tz)
    \/ \E S \in SUBSET Ids : \E vm \in [S -> 0..MaxViews] : EnrichViews(vm)
    \/ \E listing \in Records, t \in 0..MaxTs, k \in 0..3 : UpsertRaises(listing, t, k)
    \/ \E lid \in Ids : MarkInactive(lid)

UpsertSpec == Init /\ [][UpsertNext]_vars

\* ------------------------------------- one invocation at a time, with silver
\* max_active_runs=1: the runs of the pipeline DAG do not overlap
PipeWorker == 1

\* whether the invocation that ends reached "stats.log_summary()": the
\* "return 0" of an empty claim stands before "stats = StatsCollector()"
log_summary_reached(its) == its # << >>

\* the invocation returns, after the summary if it got that far
ReturnSummary(w) ==
    /\ Return(w)
    /\ summary_logged' = log_summary_reached(items[w])
    /\ UNCHANGED <<ovars, dvars, pvars, det, yvars>>

\* the loop body from the fetch on, with the silver writes of
\* fetch_single_listing and the answer the fetch met
FetchPersistRecord(w, o, price) ==
    /\ pc[w] = "fetch"
    /\ Record(w, LoopResult(o))
    /\ SetSilver(FetchWrites(SilverNow, CurrentItem(w).listing_id, o, price, now, today))
    /\ answers' = Append(answers, o)
    /\ UNCHANGED <<today, last_op, ops, bo, xvars>>

PipeNext ==
    \/ Tick /\ UNCHANGED <<ovars, xvars>>
    \/ NewDay
    \/ \E S \in SUBSET Ids : Enqueue(S) /\ UNCHANGED <<ovars, xvars>>
    \/ \E n \in 1..MaxBatch :
          /\ ClaimSelect(PipeWorker, n)
          /\ answers' = << >>
          /\ summary_logged' = FALSE
          /\ UNCHANGED <<svars, today, last_op, ops, bo, dvars, pvars, det, yvars>>
    \/ ClaimCommit(PipeWorker) /\ UNCHANGED <<ovars, xvars>>
    \/ MarkAttempt(PipeWorker) /\ UNCHANGED <<ovars, xvars>>
    \/ /\ MarkAttemptFails(PipeWorker)
       /\ answers' = Append(answers, "nofetch")
       /\ UNCHANGED <<svars, today, last_op, ops, bo, xvars>>
    \/ \E o \in Outcomes, price \in Prices \cup {NULL} :
          FetchPersistRecord(PipeWorker, o, price)
    \/ ReturnSummary(PipeWorker)

PipeSpec == Init /\ [][PipeNext]_vars

\* ------------------------------------------------ the backoff of schedule_retry
\* schedule_retry(listing_id, attempts, 0, error) on a queue holding that row;
\* bo logs the attempts passed and the delay next_retry_at - now it stored
ScheduleRetryCall(a) ==
    /\ Len(bo) < 2
    /\ LET q == InsertOnConflictDoNothing(<< >>, {1})
           r == schedule_retry(q, 1, a, 0, "exception", now)[1]
       IN  bo' = Append(bo, [attempts |-> a, delay |-> r.next_retry_at - now])
    /\ UNCHANGED <<qvars, svars, today, last_op, ops, answers, xvars>>

BackoffNext == \E a \in 0..MaxAttempts : ScheduleRetryCall(a)

BackoffSpec == Init /\ [][BackoffNext]_vars

\* ------------------------------------------------------- the discovery scan
\* what one attempt of fetch_html on an index page meets: the page content
\* ("html"), a timeout, an HTTP status >= 400 or another exception ("error"),
\* a page the blocking detector flags ("blocked")
PageAnswers == {"html", "error", "blocked"}

\* tenacity: retry_if_exception_type((PlaywrightTimeoutError, Exception)) with
\* stop_after_attempt(3); BlockingDetectedError is a subclass of Exception
tenacity_retries(answer, n) == answer # "html" /\ n < StopAfterAttempt

\* variant: all_ids = ids, the ids of the earlier pages are dropped
UpdateAllIds_Replace(all, ids) == ids

\* all_ids.update(ids)
UpdateAllIds(all, ids) == all \cup ids

\* variant: an empty page does not end the scan
LoopControl_NoBreakOnEmpty(answer, ids) ==
    IF answer = "blocked" THEN "break" ELSE "next"

\* variant: "except Exception" breaks
LoopControl_BreakOnError(answer, ids) ==
    IF answer = "html" /\ ids # {} THEN "next" ELSE "break"

\* the loop body of discover_pages_to_db when discover_ids_from_page ends
\* with the given answer: "if not ids: break", "except BlockingDetectedError:
\* break", "except Exception: continue"
LoopControl(answer, ids) ==
    IF answer = "html" THEN (IF ids = {} THEN "break" ELSE "next")
    ELSE IF answer = "blocked" THEN "break"
    ELSE "next"

\* discover_pages_to_db(page_from, page_to) is called
ScanStart(pf, pt) ==
    /\ dpc = "idle"
    /\ scans < MaxScans
    /\ scans' = scans + 1
    /\ page_range' = <<pf, pt>>
    /\ page' = pf
    /\ attempt' = 1
    /\ all_ids' = {}
    /\ requests' = << >>
    /\ dpc' = IF pf <= pt THEN "fetch" ELSE "insert"
    /\ UNCHANGED <<qvars, ovars, pvars, zvars, yvars>>

\* one attempt of fetch_html for the page of the loop, which meets the given
\* answer and, for "html", the given ids; tenacity calls fetch_html again, or
\* discover_ids_from_page returns or raises and the loop goes on or ends
ScanPage(answer, ids) ==
    /\ dpc = "fetch"
    /\ (answer # "html" => ids = {})
    /\ requests' = Append(requests, [page |-> page, answer |-> answer, ids |-> ids])
    /\ IF tenacity_retries(answer, attempt)
       THEN /\ attempt' = attempt + 1
            /\ UNCHANGED <<page, all_ids, dpc>>
       ELSE /\ attempt' = 1
            /\ all_ids' = IF answer = "html" THEN UpdateAllIds(all_ids, ids)
                          ELSE all_ids
            /\ IF LoopControl(answer, ids) = "next" /\ page < page_range[2]
               THEN page' = page + 1 /\ dpc' = "fetch"
               ELSE page' = page /\ dpc' = "insert"
    /\ UNCHANGED <<qvars, ovars, pvars, zvars, yvars, page_range, scans>>

\* "if all_ids:" the insert of the collected ids, and "return inserted"
ScanInsert ==
    /\ dpc = "insert"
    /\ dpc' = "idle"
    /\ IF all_ids # {}
       THEN Enqueue(all_ids)
       ELSE inserted' = 0 /\ UNCHANGED <<queue, lockedBy, now, wvars>>
    /\ UNCHANGED <<ovars, pvars, zvars, yvars, page, page_range, attempt, all_ids, requests, scans>>

DiscoverNext ==
    \/ \E pf, pt \in 1..MaxPage : ScanStart(pf, pt)
    \/ \E answer \in PageAnswers, ids \in SUBSET Ids : ScanPage(answer, ids)
    \/ ScanInsert

DiscoverSpec == Init /\ [][DiscoverNext]_vars

\* ------------------------------------------ the pool of fetch_listings_batch
\* the lists of ids a call is given; an id may occur twice
IdLists == UNION {[1..n -> Ids] : n \in 0..MaxListLen}

\* what fetch_single_listing ends with inside a pool thread: a parsed record,
\* None, or BlockingDetectedError
PoolOutcomes == {"parsed", "none", "blocked"}

\* futures whose fetch_one has returned or raised
Finished == {i \in DOMAIN futures : futures[i] \in PoolOutcomes \cup {"skipped"}}

Running == {i \in DOMAIN futures : futures[i] = "running"}

\* fetch_listings_batch(listing_ids, concurrency=c, use_db=True, seen_ids=seen_ids):
\* every fetch_one(lid) is submitted to the pool
PoolStart(ids, c) ==
    /\ mpc = "idle"
    /\ pool_calls < MaxPoolCalls
    /\ pool_calls' = pool_calls + 1
    /\ listing_ids' = ids
    /\ max_workers' = c
    /\ futures' = [i \in DOMAIN ids |-> "pending"]
    /\ handled' = {}
    /\ late_started' = {}
    /\ pool_result' = "none"
    /\ mpc' = "loop"
    /\ UNCHANGED <<qvars, ovars, dvars, zvars, yvars, seen_ids, fetch_count, persisted>>

\* a pool thread takes the oldest work item that is not cancelled and runs
\* fetch_one: "if lid in seen_ids: return lid, None", else the fetch starts
WorkerStart(i) ==
    /\ mpc \in {"loop", "exit"}
    /\ i \in DOMAIN futures
    /\ futures[i] = "pending"
    /\ \A j \in 1..(i - 1) : futures[j] # "pending"
    /\ Cardinality(Running) < max_workers
    /\ IF listing_ids[i] \in seen_ids
       THEN /\ futures' = [futures EXCEPT ![i] = "skipped"]
            /\ UNCHANGED <<fetch_count, late_started>>
       ELSE /\ futures' = [futures EXCEPT ![i] = "running"]
            /\ fetch_count' = [fetch_count EXCEPT ![listing_ids[i]] = @ + 1]
            /\ late_started' = IF \E j \in DOMAIN futures : futures[j] = "blocked"
                               THEN late_started \cup {i} ELSE late_started
    /\ UNCHANGED <<qvars, ovars, dvars, zvars, yvars, mpc, listing_ids, max_workers, handled,
                   seen_ids, persisted, pool_result, pool_calls>>

\* fetch_single_listing of a running future ends with outcome o; a parsed
\* record has been stored by upsert_silver before it returns
WorkerFinish(i, o) ==
    /\ i \in Running
    /\ futures' = [futures EXCEPT ![i] = o]
    /\ persisted' = IF o = "parsed" THEN persisted \cup {listing_ids[i]} ELSE persisted
    /\ UNCHANGED <<qvars, ovars, dvars, zvars, yvars, mpc, listing_ids, max_workers, handled,
                   seen_ids, fetch_count, late_started, pool_result, pool_calls>>

\* the body of "for future in as_completed(futures)" for a finished future:
\* a parsed record adds its id to seen_ids; BlockingDetectedError cancels
\* every future ("for f in futures: f.cancel()", which takes effect on those
\* still pending) and is raised out of the "with" block
MainHandle(i) ==
    /\ mpc = "loop"
    /\ i \in Finished \ handled
    /\ handled' = handled \cup {i}
    /\ seen_ids' = IF futures[i] = "parsed" THEN seen_ids \cup {listing_ids[i]}
                   ELSE seen_ids
    /\ IF futures[i] = "blocked"
       THEN /\ futures' = [j \in DOMAIN futures |->
                              IF futures[j] = "pending" THEN "cancelled" ELSE futures[j]]
            /\ mpc' = "exit"
       ELSE UNCHANGED <<futures, mpc>>
    /\ UNCHANGED <<qvars, ovars, dvars, zvars, yvars, listing_ids, max_workers, fetch_count,
                   late_started, persisted, pool_result, pool_calls>>

\* every future has been taken: the "with" block ends and results is returned
MainReturn ==
    /\ mpc = "loop"
    /\ handled = DOMAIN futures
    /\ mpc' = "idle"
    /\ pool_result' = "returned"
    /\ UNCHANGED <<qvars, ovars, dvars, zvars, yvars, listing_ids, max_workers, futures, handled,
                   seen_ids, fetch_count, late_started, persisted, pool_calls>>

\* ThreadPoolExecutor.__exit__: shutdown(wait=True) has joined the threads, no
\* future is running or pending, and BlockingDetectedError reaches the caller
MainRaise ==
    /\ mpc = "exit"
    /\ \A i \in DOMAIN futures : futures[i] \notin {"pending", "running"}
    /\ mpc' = "idle"
    /\ pool_result' = "raised"
    /\ UNCHANGED <<qvars, ovars, dvars, zvars, yvars, listing_ids, max_workers, futures, handled,
                   seen_ids, fetch_count, late_started, persisted, pool_calls>>

PoolNext ==
    \/ \E ids \in IdLists, c \in 1..MaxConcurrency : PoolStart(ids, c)
    \/ \E i \in 1..MaxListLen : WorkerStart(i)
    \/ \E i \in 1..MaxListLen, o \in PoolOutcomes : WorkerFinish(i, o)
    \/ \E i \in 1..MaxListLen : MainHandle(i)
    \/ MainReturn
    \/ MainRaise

PoolSpec == Init /\ [][PoolNext]_vars

\* ------------------------------------------------------ the blocking detector
\* a page, lower-cased: its length in characters, the word of its <title>
\* (NoTitle: no title element) and the words after it; "NL" is a line break
PageWords == {"captcha", "cloudflare", "challenge", "verify", "blocked",
              "access denied", "cf-ray", "checking", "ray", "id", "text", "NL"}

NoTitle == "<none>"

PageLens == {3000, ShortPageLen, SmallPageLen, 50000}

Pages == [len : PageLens, title : PageWords \cup {NoTitle},
          body : UNION {[1..n -> PageWords] : n \in 0..MaxBodyLen}]

\* the text of the page as a sequence of words
PageText(html) ==
    IF html.title = NoTitle THEN html.body ELSE <<html.title>> \o html.body

\* the strings of the detector's lists a word contains
SubstringsOf(w) ==
    IF w = "cf-ray" THEN {"cf-ray", "ray"}
    ELSE IF w = "checking" THEN {"checking", "check"}
    ELSE IF w = "access denied" THEN {"access denied", "access", "denied"}
    ELSE {w}

\* "needle in html_lower"
InText(needle, text) == \E i \in DOMAIN text : needle \in SubstringsOf(text[i])

\* re.search of a pattern n1.*n2.*...: the needles in this order in words of
\* one line ("." does not match a line break)
ReSearch(pattern, text) ==
    \E f \in [DOMAIN pattern -> DOMAIN text] :
       /\ \A k \in DOMAIN pattern : pattern[k] \in SubstringsOf(text[f[k]])
       /\ \A k \in DOMAIN pattern : k > 1 => f[k-1] < f[k]
       /\ \A i \in DOMAIN text :
             (f[1] < i /\ i < f[Len(pattern)]) => text[i] # "NL"

\* blocking_patterns, with their reasons
blocking_patterns ==
    << [pattern |-> <<"cloudflare", "ray", "id">>, reason |-> "Cloudflare protection page"],
       [pattern |-> <<"checking", "browser", "before", "accessing">>,
        reason |-> "Cloudflare challenge"],
       [pattern |-> <<"please", "complete", "security", "check">>,
        reason |-> "Security check required"],
       [pattern |-> <<"unusual", "traffic", "detected">>, reason |-> "Unusual traffic detected"],
       [pattern |-> <<"access", "denied", "robot">>, reason |-> "Access denied - robot"],
       [pattern |-> <<"verify", "you", "are", "human">>,
        reason |-> "Human verification required"],
       [pattern |-> <<"captcha", "challenge">>, reason |-> "CAPTCHA challenge page"] >>

ShortPageKeywords == {"captcha", "cloudflare", "challenge", "verify"}

TitleKeywords == {"captcha", "challenge", "verify", "blocked", "access denied"}

\* the heuristics of detect_blocking after the short-page test
detect_blocking_rest(html, url) ==
    LET text == PageText(html)
        hits == {k \in DOMAIN blocking_patterns :
                    ReSearch(blocking_patterns[k].pattern, text)}
    IN  IF hits # {}
        THEN [is_blocked |-> TRUE,
              reason |-> blocking_patterns[CHOOSE k \in hits : \A j \in hits : k <= j].reason]
        ELSE IF /\ html.title # NoTitle
                /\ \E kw \in TitleKeywords : kw \in SubstringsOf(html.title)
        THEN [is_blocked |-> TRUE, reason |-> "Blocking page title"]
        ELSE IF /\ InText("cf-ray", text)
                /\ html.len < SmallPageLen
                /\ (InText("challenge", text) \/ InText("checking", text))
        THEN [is_blocked |-> TRUE, reason |-> "Cloudflare challenge page"]
        ELSE [is_blocked |-> FALSE, reason |-> "None"]

\* variant: the test of short pages is left out
detect_blocking_NoShortPageTest(html, url) == detect_blocking_rest(html, url)

\* detect_blocking(html, url)
detect_blocking(html, url) ==
    IF /\ html.len < ShortPageLen
       /\ \E kw \in ShortPageKeywords : InText(kw, PageText(html))
    THEN [is_blocked |-> TRUE,
          reason |-> "Suspiciously short response with blocking keywords"]
    ELSE detect_blocking_rest(html, url)

\* the call detect_blocking(html, url) of a run
DetectBlocking(html, url) ==
    /\ det = << >>
    /\ det' = [html |-> html, url |-> url, result |-> detect_blocking(html, url)]
    /\ UNCHANGED <<qvars, ovars, dvars, pvars, summary_logged, yvars>>

\* the log is written once
DetectNext ==
    /\ det = << >>
    /\ \E html \in Pages, url \in Ids : DetectBlocking(html, url)

DetectSpec == Init /\ [][DetectNext]_vars

\* ------------------------------------------------------------ the extractor
\* Python's None where the value of a field is a text
PyNone == "None"

\* the stripped, non-empty lines soup.get_text("\n") can hold; the labels stand
\* for the Russian ones of the code: "Gorod" for the city label, "Probeg" for
\* the mileage label, "Obem dvigatelya, l" for the engine label, "Proverennyi
\* prodavets" for the verified-seller marker, "Optsii i kharakteristiki" for
\* the options header; "T" stands for the tenge sign, "VIN" is an upper-case line
TextLines == {"Gorod", "Almaty", "2020", "5 000 T", "T", "50 000 km", "Probeg",
              "Obem dvigatelya, l", "1.5 (benzin)", "Proverennyi prodavets",
              "Optsii i kharakteristiki", "VIN"}

\* the text of the first h1 element, NoTitle when the page has none
H1Texts == {NoTitle, "", "Haval", "Haval Jolion 2025 g.", "Haval Jolion Tech 2025"}

\* the source attribute of the img elements: relative, absolute, a data URI,
\* PyNone for an img without one
ImgLists == {<< >>, <<"/a.jpg", "/a.jpg">>, <<"https://cdn/b.jpg", "data:x">>,
             <<PyNone, "/a.jpg">>}

\* what BeautifulSoup(html, "lxml") gives the function for an input string: the
\* text lines, the first h1 and the img elements. The empty string is the page
\* without lines, h1 and imgs; text that is not HTML is a page of lines only;
\* HTML cut off anywhere is a page with a part of the elements
ParsePages == [lines : UNION {[1..n -> TextLines] : n \in 0..MaxLines},
               h1 : H1Texts, imgs : ImgLists]

\* the value of an expression that can raise: exc names the exception
Ok(v) == [exc |-> "none", value |-> v]

Raise(e) == [exc |-> e, value |-> NULL]

\* try: res / except caught: default
Except(res, caught, default) ==
    IF res.exc \in caught THEN Ok(default) ELSE res

\* " ".join(s.split()) or None: the lines and titles here hold single spaces
clean(s) == IF s = PyNone \/ s = "" THEN PyNone ELSE s

\* the number a line holds when it is made of digits and spaces only
DigitLine(line) == IF line = "2020" THEN 2020 ELSE NULL

\* the run of digits and whitespace that stands in the line right before
\* the unit ("T" or "km"): whether the unit is there, and the number of the
\* run (NULL when the run holds no digit); the run begins the line
BeforeUnit(line, unit) ==
    IF unit = "T" /\ line = "5 000 T" THEN [found |-> TRUE, digits |-> 5000]
    ELSE IF unit = "T" /\ line = "T" THEN [found |-> TRUE, digits |-> NULL]
    ELSE IF unit = "km" /\ line = "50 000 km" THEN [found |-> TRUE, digits |-> 50000]
    ELSE [found |-> FALSE, digits |-> NULL]

\* the digit lines that stand right before line i: \s matches the "\n" of
\* text = "\n".join(text_lines), so the run before a unit goes on into them
RECURSIVE DigitLinesBefore(_, _)
DigitLinesBefore(lines, i) ==
    IF i <= 1 \/ DigitLine(lines[i - 1]) = NULL THEN << >>
    ELSE Append(DigitLinesBefore(lines, i - 1), DigitLine(lines[i - 1]))

\* group(1) of a match that ends at the unit in line i, as the numbers
\* it holds, which line breaks separate
GroupAt(lines, i, unit) ==
    LET own == BeforeUnit(lines[i], unit) IN
    DigitLinesBefore(lines, i) \o (IF own.digits = NULL THEN << >> ELSE <<own.digits>>)

\* PRICE_RE = ([\d\s]+)\s*T: the run before the unit must not be empty; it is
\* the "\n" before the line when the line begins with the unit
PriceMatchAt(lines, i) ==
    /\ BeforeUnit(lines[i], "T").found
    /\ (BeforeUnit(lines[i], "T").digits # NULL \/ i > 1)

\* MILEAGE_RE = (\d+(?:\s*\d+)*)\s*(?:km): the group begins with a digit
MileageMatchAt(lines, i) ==
    /\ BeforeUnit(lines[i], "km").found
    /\ GroupAt(lines, i, "km") # << >>

\* re.search: the leftmost match; 0 when there is none
PRICE_RE_search(lines) ==
    IF \E i \in 1..Len(lines) : PriceMatchAt(lines, i)
    THEN CHOOSE i \in 1..Len(lines) :
            PriceMatchAt(lines, i) /\ \A j \in 1..(i - 1) : ~ PriceMatchAt(lines, j)
    ELSE 0

MILEAGE_RE_search(lines) ==
    IF \E i \in 1..Len(lines) : MileageMatchAt(lines, i)
    THEN CHOOSE i \in 1..Len(lines) :
            MileageMatchAt(lines, i) /\ \A j \in 1..(i - 1) : ~ MileageMatchAt(lines, j)
    ELSE 0

\* int(group.replace(" ", "").replace(" ", "")): int() strips the
\* whitespace around the digits; no digit at all, or whitespace left between
\* digits (a line break), is a ValueError
int_py(group) ==
    IF Len(group) = 1 THEN Ok(group[1]) ELSE Raise("ValueError")

\* price_kzt: lines 40-46
price_kzt_of(lines) ==
    LET i == PRICE_RE_search(lines) IN
    IF i = 0 THEN Ok(NULL)
    ELSE Except(int_py(GroupAt(lines, i, "T")), {"ValueError", "AttributeError"}, NULL)

\* text_lines.index(label): the first position, ValueError when it is absent
index(lines, label) ==
    IF \E i \in 1..Len(lines) : lines[i] = label
    THEN Ok(CHOOSE i \in 1..Len(lines) :
               lines[i] = label /\ \A j \in 1..(i - 1) : lines[j] # label)
    ELSE Raise("ValueError")

\* the body of the try of find_value_after and of the seller block
ValueAfter(lines, label) ==
    LET i == index(lines, label) IN
    IF i.exc # "none" THEN Raise(i.exc)
    ELSE IF i.value + 1 <= Len(lines) THEN Ok(clean(lines[i.value + 1]))
    ELSE Ok(PyNone)

\* variant: find_value_after without its except clause
find_value_after_Uncaught(lines, label) == ValueAfter(lines, label)

\* find_value_after(label): lines 49-55
find_value_after(lines, label) ==
    Except(ValueAfter(lines, label), {"ValueError", "IndexError"}, PyNone)

\* the mileage of one searched text: lines 71-76 and 82-88
mileage_of(lines) ==
    LET i == MILEAGE_RE_search(lines) IN
    IF i = 0 THEN Ok(NULL)
    ELSE Except(int_py(GroupAt(lines, i, "km")), {"ValueError", "AttributeError"}, NULL)

\* mileage_km: the search in the whole text, then in the line after the label
mileage_km_of(lines) ==
    LET first == mileage_of(lines)
        lab == find_value_after(lines, "Probeg")
    IN  IF first.exc # "none" \/ first.value # NULL THEN first
        ELSE IF lab.exc # "none" THEN Raise(lab.exc)
        ELSE IF lab.value = PyNone THEN Ok(NULL)
        ELSE mileage_of(<<lab.value>>)

\* re.search(r"(\d+(?:\.\d+)?)", engine_raw) and float() of its group, in
\* tenths; float() takes every such group; NULL when no digit is in the line
engine_volume_of(raw) ==
    IF raw = "1.5 (benzin)" THEN 15
    ELSE IF raw = "2020" THEN 20200
    ELSE IF raw = "5 000 T" THEN 50
    ELSE IF raw = "50 000 km" THEN 500
    ELSE NULL

\* re.search(r"\(([^)]+)\)", engine_raw), cleaned
engine_type_of(raw) == IF raw = "1.5 (benzin)" THEN "benzin" ELSE PyNone

\* line.isupper()
isupper(line) == line = "VIN"

\* the options: the lines after the header up to a terminator: lines 119-134;
\* the cap of the range (i + 20) lies beyond MaxLines
RECURSIVE OptionLines(_, _)
OptionLines(lines, j) ==
    IF j > Len(lines) \/ isupper(lines[j]) \/ lines[j] = "Gorod" THEN << >>
    ELSE <<lines[j]>> \o OptionLines(lines, j + 1)

options_list_of(lines) ==
    LET i == index(lines, "Optsii i kharakteristiki") IN
    IF i.exc # "none" THEN << >> ELSE OptionLines(lines, i.value + 1)

\* the photos: lines 137-152: the sources that begin with http://, https://
\* or "/", the relative ones resolved, without repetitions
PhotoUrl(src) ==
    IF src = "/a.jpg" THEN "https://kolesa.kz/a.jpg"
    ELSE IF src = "https://cdn/b.jpg" THEN src
    ELSE PyNone

RECURSIVE photos_of(_)
photos_of(imgs) ==
    IF imgs = << >> THEN << >>
    ELSE LET n == Len(imgs)
             rest == photos_of(SubSeq(imgs, 1, n - 1))
             u == PhotoUrl(imgs[n])
         IN  IF u = PyNone \/ (\E k \in 1..Len(rest) : rest[k] = u) THEN rest
             ELSE Append(rest, u)

\* title.split()
split(title) ==
    IF title = "Haval" THEN <<"Haval">>
    ELSE IF title = "Haval Jolion 2025 g." THEN <<"Haval", "Jolion", "2025", "g.">>
    ELSE IF title = "Haval Jolion Tech 2025" THEN <<"Haval", "Jolion", "Tech", "2025">>
    ELSE << >>

\* part.lower() in skip_words or re.match(r"^\d{4}", part)
SkippedPart(part) == part \in {"g.", "2025"}

\* trim: the first part after the second that is not skipped
RECURSIVE trim_of(_, _)
trim_of(parts, k) ==
    IF k > Len(parts) THEN PyNone
    ELSE IF ~ SkippedPart(parts[k]) THEN parts[k]
    ELSE trim_of(parts, k + 1)

\* re.search(r"\b(19\d{2}|20\d{2})\b", title) and int() of its group
car_year_of(title) ==
    IF \E k \in 1..Len(split(title)) : split(title)[k] = "2025"
    THEN Except(int_py(<<2025>>), {"ValueError", "AttributeError"}, NULL)
    ELSE Ok(NULL)

\* the keys of the dict parse_listing returns
ListingKeys == {"listing_id", "url", "title", "price_kzt", "city", "region", "make",
                "model", "generation", "trim", "car_year", "mileage_km", "body_type",
                "engine_volume_l", "engine_type", "transmission", "drivetrain",
                "steering", "color", "customs_cleared", "seller_name", "seller_type",
                "options_text", "options_list", "photos", "photo_count"}

\* the pairs of a field and the label find_value_after looks for; "Gorod" and
\* the engine label can be on a page here, the other labels never are
LabelOf(field) ==
    IF field = "city" THEN "Gorod"
    ELSE IF field = "region" THEN "Region"
    ELSE IF field = "generation" THEN "Pokolenie"
    ELSE IF field = "body_type" THEN "Kuzov"
    ELSE IF field = "transmission" THEN "Korobka peredach"
    ELSE IF field = "drivetrain" THEN "Privod"
    ELSE IF field = "steering" THEN "Rul"
    ELSE IF field = "color" THEN "Tsvet"
    ELSE "Rastamozhen v Kazakhstane"

LabelledFields == {"city", "region", "generation", "body_type", "transmission",
                   "drivetrain", "steering", "color", "customs"}

\* parse_listing(html, url, listing_id): the dict it returns, or the first
\* exception that leaves it
parse_listing(html, url, listing_id) ==
    LET lines == html.lines
        title == IF html.h1 = NoTitle THEN PyNone ELSE clean(html.h1)
        price == price_kzt_of(lines)
        lab == [f \in LabelledFields |-> find_value_after(lines, LabelOf(f))]
        region2 == find_value_after(lines, "Oblast")
        mileage == mileage_km_of(lines)
        engine_raw == find_value_after(lines, "Obem dvigatelya, l")
        seller == IF \E i \in 1..Len(lines) : lines[i] = "Proverennyi prodavets"
                  THEN Except(ValueAfter(lines, "Proverennyi prodavets"),
                              {"ValueError", "IndexError"}, PyNone)
                  ELSE Ok(PyNone)
        opts == options_list_of(lines)
        photos == photos_of(html.imgs)
        parts == IF title = PyNone THEN << >> ELSE split(title)
        year == IF title = PyNone THEN Ok(NULL) ELSE car_year_of(title)
        raised == ({price.exc, region2.exc, mileage.exc, engine_raw.exc, seller.exc,
                    year.exc} \cup {lab[f].exc : f \in LabelledFields}) \ {"none"}
    IN  IF raised # {} THEN Raise(CHOOSE e \in raised : TRUE)
        ELSE Ok([listing_id |-> listing_id,
                 url |-> url,
                 title |-> title,
                 price_kzt |-> price.value,
                 city |-> lab["city"].value,
                 region |-> IF lab["region"].value # PyNone THEN lab["region"].value
                            ELSE region2.value,
                 make |-> IF Len(parts) >= 2 THEN parts[1] ELSE PyNone,
                 model |-> IF Len(parts) >= 2 THEN parts[2] ELSE PyNone,
                 generation |-> lab["generation"].value,
                 trim |-> IF Len(parts) >= 3 THEN trim_of(parts, 3) ELSE PyNone,
                 car_year |-> year.value,
                 mileage_km |-> mileage.value,
                 body_type |-> lab["body_type"].value,
                 engine_volume_l |-> IF engine_raw.value = PyNone THEN NULL
                                     ELSE engine_volume_of(engine_raw.value),
                 engine_type |-> IF engine_raw.value = PyNone THEN PyNone
                                 ELSE engine_type_of(engine_raw.value),
                 transmission |-> lab["transmission"].value,
                 drivetrain |-> lab["drivetrain"].value,
                 steering |-> lab["steering"].value,
                 color |-> lab["color"].value,
                 customs_cleared |-> IF lab["customs"].value = "Da" THEN "True"
                                     ELSE IF lab["customs"].value = "Net" THEN "False"
                                     ELSE PyNone,
                 seller_name |-> seller.value,
                 seller_type |-> IF seller.value # PyNone THEN "dealer" ELSE "private",
                 options_text |-> IF opts = << >> THEN PyNone ELSE "joined",
                 options_list |-> opts,
                 photos |-> photos,
                 photo_count |-> Len(photos)])

\* one call parse_listing(html, url, listing_id)
ParseListing(html, lid) ==
    /\ parse_log = << >>
    /\ parse_log' = [html |-> html, url |-> Url(lid), listing_id |-> lid,
                     result |-> parse_listing(html, Url(lid), lid)]
    /\ UNCHANGED <<qvars, ovars, dvars, pvars, zvars, observed, gvars, fvars>>

\* the log is written once
ParseNext ==
    /\ parse_log = << >>
    /\ \E html \in ParsePages, lid \in Ids : ParseListing(html, lid)

ParseSpec == Init /\ [][ParseNext]_vars

\* ------------------------------------- upserts with successive timestamps
\* upsert_silver(listing, fetched_at) returns, fetched_at = datetime.now() of
\* successive fetches (the number of the call); observed keeps the last
\* non-null price the calls were given for the listing
PriceUpsert(listing) ==
    /\ ops < MaxOps
    /\ ops' = ops + 1
    /\ last_op' = [op |-> "upsert", listing |-> listing, fetched_at |-> ops,
                   raised |-> FALSE, writes |-> 3]
    /\ SetSilver(upsert_silver(SilverNow, listing, ops, today))
    /\ observed' = IF listing.price_kzt # NULL
                   THEN [observed EXCEPT ![listing.listing_id] = listing.price_kzt]
                   ELSE observed
    /\ UNCHANGED <<qvars, today, answers, bo, dvars, pvars, zvars, parse_log, gvars,
                   fvars>>

PriceNext == \E listing \in Records : PriceUpsert(listing)

PriceSpec == Init /\ [][PriceNext]_vars

\* ------------------------------------------ the fetch_details task of the DAG
\* everything outside the queue, the batch invocation and the task
nongvars == <<ovars, dvars, pvars, zvars, parse_log, observed, fvars>>

\* the discover task: discover_pages_to_db(1, max_pages, stats) found the ids S
\* and returns the number of rows inserted, 0 when it found none
DagDiscover(S) ==
    /\ dagpc = "idle"
    /\ dagpc' = "discovered"
    /\ IF S = {}
       THEN inserted' = 0 /\ UNCHANGED <<queue, lockedBy, now, wvars>>
       ELSE Enqueue(S)
    /\ UNCHANGED <<discovered_count, remaining_to_process, batch_num, batch_size>>
    /\ UNCHANGED nongvars

\* discovered_count: discover_result["discovered_ids"], and when that is 0
\* SELECT COUNT(*) FROM ctl.scrape_queue WHERE state IN ('NEW', 'RETRY')
discovered_count_of(discovered_ids, q) ==
    IF discovered_ids # 0 THEN discovered_ids
    ELSE Cardinality({i \in DOMAIN q : q[i].state \in {"NEW", "RETRY"}})

\* fetch_details(discover_result) up to the loop; "return" when the count is 0.
\* The batch size of the code is 5; it is drawn from 1..MaxBatch here
DagStart(bs) ==
    /\ dagpc = "discovered"
    /\ discovered_count' = discovered_count_of(inserted, queue)
    /\ remaining_to_process' = discovered_count'
    /\ batch_size' = bs
    /\ batch_num' = 0
    /\ dagpc' = IF discovered_count' = 0 THEN "finished" ELSE "loop"
    /\ UNCHANGED <<qvars, nongvars>>

\* variant: the batch size is not limited by what remains
current_batch_size_NoMin(bs, remaining) == bs

\* current_batch_size = min(batch_size, remaining_to_process)
current_batch_size(bs, remaining) == Min(bs, remaining)

\* "while remaining_to_process > 0": processed = fetch_and_process_batch(..)
\* is called
DagCallBatch ==
    /\ dagpc = "loop"
    /\ remaining_to_process > 0
    /\ ClaimSelect(PipeWorker, current_batch_size(batch_size, remaining_to_process))
    /\ dagpc' = "batch"
    /\ batch_num' = batch_num + 1
    /\ UNCHANGED <<discovered_count, remaining_to_process, batch_size, nongvars>>

\* the loop condition is false: the task returns
DagLoopExit ==
    /\ dagpc = "loop"
    /\ remaining_to_process <= 0
    /\ dagpc' = "finished"
    /\ UNCHANGED <<qvars, discovered_count, remaining_to_process, batch_num, batch_size,
                   nongvars>>

\* a step of the batch invocation the task waits for
DagBatchStep(A) ==
    /\ dagpc = "batch"
    /\ A
    /\ UNCHANGED <<gvars, nongvars>>

\* the invocation returns processed: "if processed == 0: break", else
\* remaining_to_process -= processed
DagAfterBatch ==
    /\ dagpc = "batch"
    /\ Return(PipeWorker)
    /\ IF processed_count[PipeWorker] = 0
       THEN /\ dagpc' = "finished"
            /\ UNCHANGED remaining_to_process
       ELSE /\ dagpc' = "loop"
            /\ remaining_to_process' = remaining_to_process - processed_count[PipeWorker]
    /\ UNCHANGED <<discovered_count, batch_num, batch_size, nongvars>>

DagNext ==
    \/ Tick /\ UNCHANGED <<ovars, xvars>>
    \/ \E S \in SUBSET Ids : dagpc = "idle" /\ Enqueue(S) /\ UNCHANGED <<ovars, xvars>>
    \/ \E S \in SUBSET Ids : DagDiscover(S)
    \/ \E bs \in 1..MaxBatch : DagStart(bs)
    \/ DagCallBatch
    \/ DagLoopExit
    \/ DagBatchStep(ClaimCommit(PipeWorker))
    \/ DagBatchStep(MarkAttempt(PipeWorker))
    \/ DagBatchStep(MarkAttemptFails(PipeWorker))
    \/ \E o \in Outcomes : DagBatchStep(FetchAndRecord(PipeWorker, o))
    \/ DagAfterBatch

DagSpec == Init /\ [][DagNext]_vars

\* ----------------------------------- fetch_single_listing with its flags
\* resp.status of the navigation; NULL when the navigation raised
HttpStatuses == {200, 404, 500}

\* the statement of a fetch that raises: the put_object of the archive, the
\* INSERT into bronze, the silver call (upsert_silver or mark_silver_inactive)
FetchFailures == {"none", "s3", "bronze", "silver"}

\* what a fetch can write, with the counts of the StatsCollector
Stores(S, a, b, c) == [silver |-> S, archive |-> a, bronze |-> b, counts |-> c]

\* stats.record_fetched / record_parsed / record_failed / record_blocked,
\* under "if stats:"
record(st, with_stats, key) ==
    IF with_stats THEN [st EXCEPT !.counts = [@ EXCEPT ![key] = @ + 1]] ELSE st

\* variant: the fetch is recorded before the page is examined
record_blocked_AfterFetched(st, with_stats) ==
    record(record(st, with_stats, "fetched"), with_stats, "blocked")

\* "if stats: stats.record_blocked()" of a flagged page
record_blocked(st, with_stats) == record(st, with_stats, "blocked")

\* "except Exception": stats.record_failed(str(e)); return None
Failed(st, with_stats) ==
    [stores |-> record(st, with_stats, "failed"), result |-> "none"]

\* variant: the inactivation is not under "if use_db:"
inactive_if_use_db_Always(S, use_db, lid, date_today) ==
    mark_silver_inactive(S, lid, date_today)

\* status == 404: "if use_db: mark_silver_inactive(listing_id)"
inactive_if_use_db(S, use_db, lid, date_today) ==
    IF use_db THEN mark_silver_inactive(S, lid, date_today) ELSE S

\* fetch_single_listing(listing_id, url, use_db, use_s3, stats) on the stores
\* st: the navigation ended with the given status (NULL: it raised) and a page
\* for which detect_blocking(html, url) answers is_blocked, the statement named
\* by fail raises when it is reached, the page parses to the given price; the
\* stores afterwards and what the caller gets: "parsed", "none" or "blocked"
\* (BlockingDetectedError)
fetch_single_listing_stores(st, lid, use_db, use_s3, with_stats, status, is_blocked, fail, price, fetched_at, date_today) ==
    LET fetched == record(st, with_stats, "fetched")
        put == IF use_s3
               THEN [fetched EXCEPT !.archive = @ \cup {<<lid, fetched_at>>}]
               ELSE fetched
        row == IF use_s3 /\ use_db
               THEN [put EXCEPT !.bronze = @ \cup {[listing_id |-> lid,
                                                    fetched_at |-> fetched_at,
                                                    object_key |-> <<lid, fetched_at>>,
                                                    http_status |-> status]}]
               ELSE put
        parsed == [listing_id |-> lid, price_kzt |-> price, photo_count |-> 0]
        counted == record(row, with_stats, "parsed")
    IN  IF status = NULL THEN Failed(st, with_stats)
        ELSE IF is_blocked
             THEN [stores |-> record_blocked(st, with_stats), result |-> "blocked"]
        ELSE IF use_s3 /\ fail = "s3" THEN Failed(fetched, with_stats)
        ELSE IF use_s3 /\ use_db /\ fail = "bronze" THEN Failed(put, with_stats)
        ELSE IF status = 404
             THEN IF use_db /\ fail = "silver"
                  THEN Failed([row EXCEPT !.silver =
                                  mark_silver_inactive_raises(@, lid, date_today)],
                              with_stats)
                  ELSE [stores |-> [row EXCEPT !.silver =
                                       inactive_if_use_db(@, use_db, lid, date_today)],
                        result |-> "none"]
        ELSE IF status >= 400 THEN Failed(row, with_stats)
        ELSE IF use_db /\ fail = "silver"
             THEN Failed([counted EXCEPT !.silver =
                             upsert_silver_raises(@, parsed, fetched_at, date_today, 3)],
                         with_stats)
        ELSE [stores |-> IF use_db
                         THEN [counted EXCEPT !.silver =
                                  upsert_silver(@, parsed, fetched_at, date_today)]
                         ELSE counted,
              result |-> "parsed"]

\* one call of fetch_single_listing, the time of the fetch being the number of
\* the call; the function has no statement on ctl.scrape_queue
FetchCall(lid, use_db, use_s3, with_stats, status, is_blocked, fail, price) ==
    /\ fetches < MaxFetches
    /\ fetches' = fetches + 1
    /\ LET r == fetch_single_listing_stores(Stores(SilverNow, archive, bronze, counts),
                    lid, use_db, use_s3, with_stats, status, is_blocked, fail, price,
                    fetches, today)
       IN  /\ SetSilver(r.stores.silver)
           /\ archive' = r.stores.archive
           /\ bronze' = r.stores.bronze
           /\ counts' = r.stores.counts
           /\ fetch_log' = [listing_id |-> lid, use_db |-> use_db, use_s3 |-> use_s3,
                            stats |-> with_stats, status |-> status,
                            flagged |-> status # NULL /\ is_blocked,
                            result |-> r.result]
    /\ UNCHANGED <<qvars, today, last_op, ops, answers, bo, dvars, pvars, zvars,
                   parse_log, observed, gvars>>

FetchNext ==
    \/ queue = << >> /\ fetches = 0 /\ Enqueue(Ids) /\ UNCHANGED <<ovars, xvars>>
    \/ \E lid \in Ids, use_db \in BOOLEAN, use_s3 \in BOOLEAN, with_stats \in BOOLEAN,
          status \in HttpStatuses \cup {NULL}, is_blocked \in BOOLEAN,
          fail \in FetchFailures, price \in Prices \cup {NULL} :
          FetchCall(lid, use_db, use_s3, with_stats, status, is_blocked, fail, price)

FetchSpec == Init /\ [][FetchNext]_vars

\* ================================================================= claims
\* ids of the claimed entries an invocation has not finished yet
Pending(w) ==
    IF pc[w] \in {"claimed", "mark", "fetch"}
    THEN {items[w][j].listing_id : j \in {k \in 1..Len(items[w]) : k >= idx[w]}}
    ELSE {}

\* the entry an invocation is processing: attempt marked, outcome not yet recorded
InFlight(w) == IF pc[w] = "fetch" THEN {CurrentItem(w).listing_id} ELSE {}

\* C1: at no moment are two invocations both processing the same listing_id
\* (between the attempt-marking of the entry and the recording of its outcome).
C1_AtMostOnceInFlight ==
    \A w1, w2 \in Workers : w1 # w2 => InFlight(w1) \cap InFlight(w2) = {}

\* C2: the claim marks the selected rows as claimed for the caller: the entries
\* two invocations hold claimed and unfinished never have a listing_id in common.
C2_ClaimExclusivity ==
    \A w1, w2 \in Workers : w1 # w2 => Pending(w1) \cap Pending(w2) = {}

\* C3: a fetch that ends with HTTP >= 400 other than 404, or with a timeout,
\* leaves the entry in state RETRY with a future next_retry_at and the error
\* recorded; that attempt never sets it to FETCHED or INACTIVE.
C3_TransientFailureRetried ==
    [][\A w \in Workers, o \in {"httperr", "timeout"} :
          FetchAndRecord(w, o) =>
             LET r == queue'[CurrentItem(w).listing_id] IN
             /\ r.state = "RETRY"
             /\ r.next_retry_at > now
             /\ r.last_error # "NULL"]_vars

\* C4: when upsert_silver raises for a listing fetched with status 2xx, the
\* queue entry ends in state RETRY, not FETCHED or INACTIVE.
C4_PersistenceFailureRetried ==
    [][\A w \in Workers :
          FetchAndRecord(w, "upsertfail") =>
             queue'[CurrentItem(w).listing_id].state = "RETRY"]_vars

\* C5: fetch_single_listing returns null exactly when the listing is confirmed
\* removed (HTTP 404): in every fetch a null result means not-found.
C5_NullMeansNotFound ==
    [][\A w \in Workers, o \in Outcomes :
          FetchAndRecord(w, o) =>
             (fetch_single_listing(o) = "none" <=> o \in {"notfound", "markfail"})]_vars

\* C6: the attempts counter of every queue entry never decreases, under any
\* interleaving of enqueue, claim, attempt-marking, update_state, schedule_retry.
C6_AttemptsMonotonic ==
    [][\A i \in DOMAIN queue :
          i \in DOMAIN queue' /\ queue'[i].attempts >= queue[i].attempts]_vars

\* C7: every row the claim step returns has state NEW or RETRY and a
\* next_retry_at that is null or not later than now at selection time, the
\* returned values are those of the row, and at most batch_size rows are returned.
C7_ClaimEligibility ==
    [][\A w \in Workers, n \in 1..MaxBatch :
          ClaimSelect(w, n) =>
             /\ Len(items'[w]) <= n
             /\ \A j \in 1..Len(items'[w]) :
                   LET lid == items'[w][j].listing_id IN
                   /\ lid \in DOMAIN queue
                   /\ queue[lid].state \in {"NEW", "RETRY"}
                   /\ queue[lid].state \notin {"FETCHED", "INACTIVE"}
                   /\ (queue[lid].next_retry_at = NULL \/ queue[lid].next_retry_at <= now)
                   /\ items'[w][j].attempts = queue[lid].attempts]_vars

\* a claim is open that returned a RETRY row whose retry time has elapsed while
\* another RETRY row, whose retry time is in the future, was not returned
C7_Witness ==
    \E w \in Workers :
       /\ pc[w] = "claimed"
       /\ \E j \in 1..Len(items[w]) :
             /\ queue[items[w][j].listing_id].state = "RETRY"
             /\ queue[items[w][j].listing_id].next_retry_at <= now
       /\ \E i \in DOMAIN queue :
             /\ queue[i].state = "RETRY"
             /\ queue[i].next_retry_at > now
             /\ \A j \in 1..Len(items[w]) : items[w][j].listing_id # i

\* C8: enqueueing a listing_id already in the queue is a no-op whatever the
\* row's state (state, attempts, next_retry_at and url unchanged, still one
\* row); an id not yet present is inserted with state NEW.
C8_IdempotentEnqueue ==
    [][\A S \in SUBSET Ids :
          Enqueue(S) =>
             /\ DOMAIN queue' = (DOMAIN queue) \cup S
             /\ \A i \in DOMAIN queue : queue'[i] = queue[i]
             /\ \A i \in S \ DOMAIN queue :
                   queue'[i].state = "NEW" /\ queue'[i].attempts = 0]_vars

\* the last enqueue inserted nothing (all its ids were present) and the queue
\* holds a row that has been attempted and is no longer NEW
C8_Witness ==
    /\ inserted = 0
    /\ \E i \in DOMAIN queue : queue[i].attempts > 0 /\ queue[i].state # "NEW"

\* C9: when the page of an entry is flagged as blocked, the entry is set to
\* RETRY with a future next_retry_at, the invocation ends without attempting
\* any later entry of the batch, and every other row is left as it was.
C9_BlockingAbortsBatch ==
    [][\A w \in Workers :
          FetchAndRecord(w, "blocked") =>
             LET lid == CurrentItem(w).listing_id IN
             /\ queue'[lid].state = "RETRY"
             /\ queue'[lid].next_retry_at > now
             /\ pc'[w] = "done"
             /\ idx'[w] = idx[w]
             /\ \A i \in (DOMAIN queue) \ {lid} : queue'[i] = queue[i]]_vars

\* an invocation ended on a blocked first entry; the later entry of its batch
\* is still NEW, unattempted and eligible
C9_Witness ==
    \E w \in Workers :
       /\ pc[w] = "done"
       /\ idx[w] = 1
       /\ Len(items[w]) = 2
       /\ queue[items[w][1].listing_id].last_error = "Blocking detected"
       /\ queue[items[w][1].listing_id].state = "RETRY"
       /\ LET r == queue[items[w][2].listing_id] IN
             /\ r.state = "NEW"
             /\ r.attempts = items[w][2].attempts
             /\ r.last_attempt_at = NULL

C11_NotFoundTerminal ==
    [][\A o \in {"notfound", "markfail"}, price \in Prices \cup {NULL} :
          FetchPersistRecord(PipeWorker, o, price) =>
             LET lid == CurrentItem(PipeWorker).listing_id IN
             /\ queue'[lid].state = "INACTIVE"
             /\ queue'[lid].next_retry_at = NULL
             /\ lid \in DOMAIN current' => ~ current'[lid].is_active
             /\ <<lid, today>> \in DOMAIN daily' => ~ daily'[<<lid, today>>].is_active]_vars

\* the entries of the running invocation that were claimed unattempted
FreshEntries ==
    {j \in 1..Len(answers) : items[PipeWorker][j].attempts = 0}

\* a claim on a queue holding only freshly discovered rows, with a batch_size
\* of at least their number, returns all of them as NEW with attempts = 0
FreshClaimReturnsAll ==
    [][\A n \in 1..MaxBatch :
          (/\ ClaimSelect(PipeWorker, n)
           /\ \A i \in DOMAIN queue : queue[i] = NewRow(i)
           /\ n >= Cardinality(DOMAIN queue))
          => /\ {items'[PipeWorker][j].listing_id :
                    j \in 1..Len(items'[PipeWorker])} = DOMAIN queue
             /\ \A j \in 1..Len(items'[PipeWorker]) :
                   /\ items'[PipeWorker][j].attempts = 0
                   /\ queue[items'[PipeWorker][j].listing_id].state = "NEW"]_vars

\* after the batch a fresh id whose fetch and recording succeeded is FETCHED
\* and has a DailySnapshot row; that row is written for the date of the fetch
FreshSucceededStored ==
    /\ [](pc[PipeWorker] = "done" =>
            \A j \in FreshEntries :
               answers[j] = "ok" =>
                  LET lid == items[PipeWorker][j].listing_id IN
                  /\ queue[lid].state = "FETCHED"
                  /\ \E d \in 0..today : <<lid, d>> \in DOMAIN daily)
    /\ [][\A price \in Prices \cup {NULL} :
             FetchPersistRecord(PipeWorker, "ok", price) =>
                <<CurrentItem(PipeWorker).listing_id, today>> \in DOMAIN daily']_vars

C13_TransientFailureStaysClaimable ==
    [][\A o \in {"httperr", "timeout", "upsertfail"}, price \in Prices \cup {NULL} :
          FetchPersistRecord(PipeWorker, o, price) =>
             queue'[CurrentItem(PipeWorker).listing_id].state \in {"NEW", "RETRY"}]_vars

\* C14: the delay schedule_retry stores is min(2^a, 1440) minutes: for attempt
\* counts a1 < a2, delay(a1) <= delay(a2) <= 1 day.
C14_BackoffMonotoneCapped ==
    \A i, j \in DOMAIN bo :
       /\ bo[i].delay = (IF Pow2(bo[i].attempts) <= 1440
                         THEN Pow2(bo[i].attempts) ELSE 1440)
       /\ bo[i].attempts < bo[j].attempts =>
             /\ bo[i].delay <= bo[j].delay
             /\ bo[j].delay <= MinutesPerDay

\* two retries were scheduled, with 10 and with 11 attempts: the second delay
\* is the cap, the first is below it
C14_Witness ==
    /\ Len(bo) = 2
    /\ bo[1].attempts = 10
    /\ bo[2].attempts = 11
    /\ bo[1].delay < bo[2].delay
    /\ bo[2].delay = MinutesPerDay

C16_AttemptRecordedBeforeFetch ==
    \A w \in Workers :
       pc[w] = "fetch" =>
          LET r == queue[CurrentItem(w).listing_id] IN
          /\ r.attempts >= CurrentItem(w).attempts + 1
          /\ r.last_attempt_at # NULL

\* the price stored in listing_current for a listing, NULL if it has no row
StoredPrice(lid) == IF lid \in DOMAIN current THEN current[lid].price_kzt ELSE NULL

\* a record's price is present and differs from the present stored price
PriceChanged(listing) ==
    /\ listing.price_kzt # NULL
    /\ StoredPrice(listing.listing_id) # NULL
    /\ StoredPrice(listing.listing_id) # listing.price_kzt

\* the price event of an upsert that changes the price
PriceEventOf(listing, fetched_at) ==
    [listing_id |-> listing.listing_id, event_ts |-> fetched_at,
     old_price_kzt |-> StoredPrice(listing.listing_id),
     new_price_kzt |-> listing.price_kzt]

\* no operation updates or deletes a price event
EventsAppendOnly == [][events \subseteq events']_vars

\* C17 (as stated): an upsert whose non-null price differs from the stored
\* non-null price appends exactly one PriceEvent (old = stored, new = record
\* price, timestamp = fetched_at); an upsert with the same price, an absent
\* price or no stored price appends none; no operation updates or deletes one.
C17_PriceEventExactlyOne ==
    /\ [][\A listing \in Records, t \in 0..MaxTs :
             Upsert(listing, t) =>
                IF PriceChanged(listing)
                THEN /\ events' = events \cup {PriceEventOf(listing, t)}
                     /\ Cardinality(events') = Cardinality(events) + 1
                ELSE events' = events]_vars
    /\ EventsAppendOnly

\* C17 (amended): the upsert of a changed price appends exactly that one
\* PriceEvent unless a PriceEvent of the listing with the timestamp fetched_at
\* is already stored, in which case it appends none; every other upsert
\* appends none; no operation updates or deletes a PriceEvent.
C17_PriceEventUnlessSameTimestamp ==
    /\ [][\A listing \in Records, t \in 0..MaxTs :
             Upsert(listing, t) =>
                IF /\ PriceChanged(listing)
                   /\ ~ \E x \in events : /\ x.listing_id = listing.listing_id
                                           /\ x.event_ts = t
                THEN /\ events' = events \cup {PriceEventOf(listing, t)}
                     /\ Cardinality(events') = Cardinality(events) + 1
                ELSE events' = events]_vars
    /\ EventsAppendOnly

\* the last upsert changed the stored price at a timestamp that already had
\* a PriceEvent of the listing: that event is the only one of the timestamp
\* and it does not lead to the price now stored
C17_Witness ==
    /\ last_op # << >>
    /\ last_op.op = "upsert"
    /\ ~ last_op.raised
    /\ \E x \in events :
          /\ x.listing_id = last_op.listing.listing_id
          /\ x.event_ts = last_op.fetched_at
          /\ x.new_price_kzt # current[x.listing_id].price_kzt
          /\ current[x.listing_id].price_kzt # NULL

\* C18: applying upsert(record, fetched_at) a second time with the same
\* arguments, nothing else having written in between, leaves PriceEvent,
\* CurrentSnapshot and DailySnapshot as the first application left them.
C18_UpsertIdempotent ==
    [][\A listing \in Records, t \in 0..MaxTs :
          (/\ last_op = [op |-> "upsert", listing |-> listing, fetched_at |-> t,
                         raised |-> FALSE, writes |-> 3]
           /\ Upsert(listing, t))
          => UNCHANGED svars]_vars

\* C19: the first upsert of a listing sets first_seen_at to its fetched_at, no
\* later upsert or inactivation changes first_seen_at or removes the row, and
\* every successful upsert sets last_seen_at to its fetched_at.
C19_FirstSeenImmutable ==
    /\ [][\A lid \in DOMAIN current :
             /\ lid \in DOMAIN current'
             /\ current'[lid].first_seen_at = current[lid].first_seen_at]_vars
    /\ [][\A listing \in Records, t \in 0..MaxTs :
             Upsert(listing, t) =>
                LET lid == listing.listing_id IN
                /\ lid \in DOMAIN current'
                /\ current'[lid].last_seen_at = t
                /\ lid \notin DOMAIN current => current'[lid].first_seen_at = t]_vars

\* a listing first seen at 0 was upserted again at a later fetched_at and then
\* set inactive
C19_Witness ==
    /\ last_op # << >>
    /\ last_op.op = "inactive"
    /\ last_op.listing_id \in DOMAIN current
    /\ LET r == current[last_op.listing_id] IN
          /\ r.first_seen_at = 0
          /\ r.last_seen_at > 0
          /\ ~ r.is_active

\* C20: when a step of upsert_silver fails (the read of the old row, the
\* PriceEvent insert, the CurrentSnapshot upsert, the DailySnapshot upsert or
\* the commit), the three tables are as before the call and the call raises.
C20_UpsertAtomic ==
    [][(ops' # ops /\ last_op'.op = "upsert") =>
          LET listing == last_op'.listing
              t == last_op'.fetched_at
              k == last_op'.writes
          IN  UpsertRaises(listing, t, k) =>
                 /\ UNCHANGED svars
                 /\ last_op'.raised]_vars

\* an upsert raised after its price event and its listing_current write: the
\* stored price is still the old one and no event of that call is stored
C20_Witness ==
    /\ last_op # << >>
    /\ last_op.op = "upsert"
    /\ last_op.raised
    /\ last_op.writes >= 2
    /\ PriceChanged(last_op.listing)
    /\ ~ \E x \in events : /\ x.listing_id = last_op.listing.listing_id
                            /\ x.event_ts = last_op.fetched_at

\* C21: a call of upsert_silver whose record has no listing_id raises KeyError,
\* and one whose fetched_at carries no timezone raises ValueError, before any
\* storage access: the three silver tables are left unchanged
C21_ValidationBeforeStorage ==
    [][ops' # ops =>
          \A t \in 0..MaxTs :
             /\ \A listing \in RecordsWithoutId, tz \in TzInfos :
                   UpsertCall(listing, t, tz)
                   => /\ UNCHANGED svars
                      /\ last_op' = [op |-> "rejected", error |-> "KeyError"]
             /\ \A listing \in Records :
                   UpsertCall(listing, t, "None")
                   => /\ UNCHANGED svars
                      /\ last_op' = [op |-> "rejected", error |-> "ValueError"]]_vars

\* a naive fetched_at was rejected while the tables held rows
C21_Witness ==
    /\ last_op # << >>
    /\ last_op.op = "rejected"
    /\ last_op.error = "ValueError"
    /\ DOMAIN current # {}
    /\ DOMAIN daily # {}

\* the calendar date of a timestamp, fetched_at.date()
DateOf(t) == t \div TicksPerDay

\* C22: an upsert_silver call that returns has written the daily snapshot row
\* keyed by the listing and the calendar date of fetched_at, and has touched no
\* daily row of another date
C22_DailyKeyedByFetchedAtDate ==
    [][\A listing \in Records, t \in 0..MaxTs :
          Upsert(listing, t)
          => LET k == <<listing.listing_id, DateOf(t)>> IN
             /\ k \in DOMAIN daily'
             /\ \A j \in (DOMAIN daily') \ {k} :
                   j \in DOMAIN daily /\ daily'[j] = daily[j]]_vars

\* C23: an upsert_silver call that returns keeps the views of the daily row it
\* meets, changing only price_kzt, is_active and photo_count, and stores a new
\* daily row with views absent
C23_UpsertKeepsViews ==
    [][\A listing \in Records, t \in 0..MaxTs :
          Upsert(listing, t)
          => LET k == <<listing.listing_id, today>> IN
             /\ k \in DOMAIN daily'
             /\ IF k \in DOMAIN daily
                THEN daily'[k] = [daily[k] EXCEPT !.price_kzt = listing.price_kzt,
                                                  !.is_active = TRUE,
                                                  !.photo_count = listing.photo_count]
                ELSE daily'[k].views = NULL]_vars

\* an upsert has met a daily row whose views the enrichment pass had set, with
\* another price, and the views are still there
C23_Witness ==
    /\ last_op # << >>
    /\ last_op.op = "upsert"
    /\ ~ last_op.raised
    /\ LET k == <<last_op.listing.listing_id, today>> IN
       /\ k \in DOMAIN daily
       /\ daily[k].views # NULL
       /\ daily[k].price_kzt = 2
       /\ \E x \in events : x.listing_id = k[1] /\ x.new_price_kzt = 2

\* the ids found on the index pages the scan has been given so far
FoundIds == UNION {requests[i].ids : i \in DOMAIN requests}

\* C24: the insert step of discover_pages_to_db enqueues every id found on
\* the pages of the scan, however the scan ended, returns the number of rows
\* it inserted, and leaves the rows of ids already queued as they were
C24_ScanEnqueuesAllFound ==
    [][ScanInsert =>
          /\ FoundIds \subseteq DOMAIN queue'
          /\ DOMAIN queue' = (DOMAIN queue) \cup FoundIds
          /\ inserted' = Cardinality((DOMAIN queue') \ (DOMAIN queue))
          /\ \A i \in DOMAIN queue : queue'[i] = queue[i]]_vars

\* a second scan found two ids on two pages, one of them queued before, was
\* ended by a blocked page, and returned 1
C24_Witness ==
    /\ scans = 2
    /\ dpc = "idle"
    /\ inserted = 1
    /\ Len(requests) >= 3
    /\ requests[1].ids # {}
    /\ requests[2].ids # {}
    /\ requests[1].ids # requests[2].ids
    /\ requests[Len(requests)].answer = "blocked"
    /\ Cardinality(FoundIds) = 2
    /\ FoundIds \subseteq DOMAIN queue

\* C25: the requests of a scan start at page_from, stay within
\* page_from..page_to, go from a page to the same or the next page, and none
\* follows a page that yielded zero ids
C25_ScanOrderAndEmptyStop ==
    /\ \A i \in DOMAIN requests :
          /\ requests[i].page >= page_range[1]
          /\ requests[i].page <= page_range[2]
          /\ i = 1 => requests[i].page = page_range[1]
          /\ i > 1 => requests[i].page \in {requests[i-1].page, requests[i-1].page + 1}
          /\ i > 1 => ~ (requests[i-1].answer = "html" /\ requests[i-1].ids = {})
    /\ (/\ requests # << >>
        /\ requests[Len(requests)].answer = "html"
        /\ requests[Len(requests)].ids = {}) => dpc # "fetch"

\* a scan of pages 1..2 has ended on page 1, which yielded zero ids
C25_Witness ==
    /\ page_range = <<1, 2>>
    /\ dpc = "idle"
    /\ Len(requests) = 1
    /\ requests[1].answer = "html"
    /\ requests[1].ids = {}

\* C26: no index-page request of the scan follows a request the blocking
\* detector flagged, and after a flagged request the scan is not fetching
C26_BlockingAbortsScan ==
    /\ \A i \in DOMAIN requests : i > 1 => requests[i-1].answer # "blocked"
    /\ (requests # << >> /\ requests[Len(requests)].answer = "blocked")
          => dpc # "fetch"

\* C27: an attempt on an index page that fails without a blocking detection
\* keeps the ids collected so far and leaves the scan fetching, the same page
\* again while fetch_html retries and then the next page; after the last page
\* the collected ids are inserted
C27_ErrorDoesNotAbortScan ==
    [][ScanPage("error", {}) =>
          /\ all_ids' = all_ids
          /\ IF attempt < StopAfterAttempt
             THEN dpc' = "fetch" /\ page' = page
             ELSE IF page < page_range[2]
                  THEN dpc' = "fetch" /\ page' = page + 1
                  ELSE dpc' = "insert"]_vars

\* page 1 failed three times, page 2 was fetched and its ids are enqueued
C27_Witness ==
    /\ page_range = <<1, 2>>
    /\ dpc = "idle"
    /\ Len(requests) = 4
    /\ \A i \in 1..3 : requests[i].page = 1 /\ requests[i].answer = "error"
    /\ requests[4].page = 2
    /\ requests[4].ids # {}
    /\ requests[4].ids \subseteq DOMAIN queue
    /\ inserted > 0

\* C28: in a call of fetch_listings_batch no fetch is started once a future
\* of the call has raised the blocking error; the call ends only when no
\* fetch is running, what the fetches stored stays stored, and a call in which
\* a fetch was flagged does not return normally
C28_PoolCancellation ==
    /\ late_started = {}
    /\ mpc = "idle" => Running = {}
    /\ \A i \in DOMAIN futures : futures[i] = "parsed" => listing_ids[i] \in persisted
    /\ pool_result = "returned" => \A i \in DOMAIN futures : futures[i] # "blocked"

\* C29: with one seen_ids set passed to every call of fetch_listings_batch, no
\* listing id is fetched more than once
C29_SeenSetDedup == \A i \in Ids : fetch_count[i] <= 1

\* C30: every invocation of fetch_and_process_batch has emitted the summary
\* of its StatsCollector when it ends, also when its claim returned no entry
C30_SummaryAlwaysLogged ==
    [][ReturnSummary(PipeWorker) => summary_logged']_vars

\* the keywords of the detector: those of the short-page test and of the title
BlockingKeywords == ShortPageKeywords \cup TitleKeywords

\* the page holds none of the keywords, none of the challenge phrases and no
\* cf-ray marker
CleanPage(html) ==
    /\ \A kw \in BlockingKeywords : ~ InText(kw, PageText(html))
    /\ \A k \in DOMAIN blocking_patterns :
          ~ ReSearch(blocking_patterns[k].pattern, PageText(html))
    /\ ~ InText("cf-ray", PageText(html))

\* C31: detect_blocking flags every page shorter than 5000 characters that
\* holds one of captcha, cloudflare, challenge, verify; it flags no page, of
\* any length, that holds none of the keywords, challenge phrases and markers;
\* and its result is the same for every url
C31_BlockingFixtures ==
    det # << >> =>
       /\ (/\ det.html.len < ShortPageLen
           /\ \E kw \in ShortPageKeywords : InText(kw, PageText(det.html)))
          => det.result.is_blocked
       /\ CleanPage(det.html) => ~ det.result.is_blocked
       /\ \A url \in Ids : detect_blocking(det.html, url) = det.result

\* the fixtures: a page of 3000 characters whose only keyword is cloudflare,
\* in its body, was flagged
C31_Witness ==
    /\ det # << >>
    /\ det.html.len = 3000
    /\ det.html.title = NoTitle
    /\ det.html.body = <<"text", "cloudflare">>
    /\ det.result.is_blocked
\* C32: parse_listing is total: for every input, the empty page, text that is
\* not HTML and cut-off HTML included, it returns a dict with listing_id, url
\* and every field key and raises nothing; the listing_id and the url are the
\* ones passed in, and a field whose source is absent from the page is null
\* (the list-valued fields are empty lists then, photo_count is 0 and
\* seller_type is "private")
C32_ParserTotal ==
    parse_log # << >> =>
       LET r == parse_log.result
           html == parse_log.html
           has(l) == \E i \in 1..Len(html.lines) : html.lines[i] = l
       IN  /\ r.exc = "none"
           /\ DOMAIN r.value = ListingKeys
           /\ r.value.listing_id = parse_log.listing_id
           /\ r.value.url = parse_log.url
           /\ \A f \in LabelledFields \ {"customs"} :
                  ~ has(LabelOf(f)) => r.value[f] = PyNone
           /\ ~ has("Obem dvigatelya, l") =>
                  r.value.engine_volume_l = NULL /\ r.value.engine_type = PyNone
           /\ ~ has("Proverennyi prodavets") =>
                  r.value.seller_name = PyNone /\ r.value.seller_type = "private"
           /\ (~ has("5 000 T") /\ ~ has("T")) => r.value.price_kzt = NULL
           /\ ~ has("50 000 km") => r.value.mileage_km = NULL
           /\ ~ has("Optsii i kharakteristiki") =>
                  r.value.options_list = << >> /\ r.value.options_text = PyNone
           /\ html.h1 = NoTitle =>
                  /\ r.value.title = PyNone
                  /\ r.value.make = PyNone
                  /\ r.value.model = PyNone
                  /\ r.value.trim = PyNone
                  /\ r.value.car_year = NULL
           /\ html.imgs = << >> => r.value.photos = << >> /\ r.value.photo_count = 0

\* a page whose price group spans a line break: int() raises, the except
\* clause takes it, the label of the city is absent, and the dict is returned
C32_Witness ==
    /\ parse_log # << >>
    /\ parse_log.html.lines = <<"2020", "5 000 T">>
    /\ parse_log.html.h1 = NoTitle
    /\ parse_log.result.exc = "none"
    /\ parse_log.result.value.price_kzt = NULL
    /\ parse_log.result.value.city = PyNone
\* C33: every observed price change is recorded: when an upsert brings a
\* non-null price that differs from the last non-null price observed before
\* for the listing, a price event with that old and that new price exists
\* afterwards, whatever upserts (also ones without a price) lay in between
C33_EveryPriceChangeRecorded ==
    [][\A listing \in Records :
          (/\ PriceUpsert(listing)
           /\ listing.price_kzt # NULL
           /\ observed[listing.listing_id] # NULL
           /\ observed[listing.listing_id] # listing.price_kzt)
          => \E e \in events' :
                /\ e.listing_id = listing.listing_id
                /\ e.old_price_kzt = observed[listing.listing_id]
                /\ e.new_price_kzt = listing.price_kzt]_vars
\* C34: fetch_details invokes fetch_and_process_batch until the queue is drained:
\* it does not finish while entries eligible for claiming (NEW or RETRY with
\* the retry time elapsed) remain
C34_TaskDrainsQueue ==
    [][(dagpc # "finished" /\ dagpc' = "finished")
       => \A i \in DOMAIN queue' : ~ Eligible(queue'[i], now')]_vars

\* C39: the loop of fetch_details terminates: remaining_to_process is never
\* negative, at most discovered_count batch invocations are made, and an
\* iteration either ends the loop (0 processed) or takes at least 1 off
\* remaining_to_process
C39_LoopTerminates ==
    [][/\ remaining_to_process' >= 0
       /\ batch_num' <= discovered_count'
       /\ DagAfterBatch =>
             \/ processed_count[PipeWorker] = 0 /\ dagpc' = "finished"
             \/ remaining_to_process' <= remaining_to_process - 1]_vars

\* the task made two batch invocations for two discovered listings and
\* left the loop with nothing remaining
C39_Witness ==
    /\ dagpc = "finished"
    /\ discovered_count = 2
    /\ batch_num = 2
    /\ remaining_to_process = 0

\* C36: FETCHED and INACTIVE are absorbing: once an entry is FETCHED or
\* INACTIVE, no step of the pipeline (enqueue, claim, attempt-marking,
\* update_state, schedule_retry), under any interleaving of concurrent batch
\* invocations, takes its state back to NEW or RETRY
C36_TerminalStatesAbsorbing ==
    [][\A i \in DOMAIN queue :
          queue[i].state \in {"FETCHED", "INACTIVE"}
          => queue'[i].state \notin {"NEW", "RETRY"}]_vars

\* C37: each attempt counts once: with no concurrent invocation, every entry
\* of the batch whose outcome is recorded (FETCHED, INACTIVE or RETRY) has
\* attempts one above the value the claim returned
C37_AttemptCountsOnce ==
    LET w == PipeWorker
        recorded == IF pc[w] \in {"mark", "fetch"} THEN 1..(idx[w] - 1)
                    ELSE IF pc[w] = "done" THEN 1..idx[w]
                    ELSE {}
    IN  \A j \in recorded :
           queue[items[w][j].listing_id].attempts = items[w][j].attempts + 1

\* a batch of two entries, the first one claimed with an earlier attempt,
\* fetched and recorded FETCHED, the second one sent to RETRY
C37_Witness ==
    /\ pc[PipeWorker] = "done"
    /\ Len(items[PipeWorker]) = 2
    /\ idx[PipeWorker] = 2
    /\ items[PipeWorker][1].attempts = 1
    /\ queue[items[PipeWorker][1].listing_id].state = "FETCHED"
    /\ queue[items[PipeWorker][1].listing_id].attempts = 2
    /\ queue[items[PipeWorker][2].listing_id].state = "RETRY"
    /\ queue[items[PipeWorker][2].listing_id].attempts = items[PipeWorker][2].attempts + 1

\* C35: with use_db = False a call of fetch_single_listing writes nothing to
\* the queue, the bronze table and the silver tables, whatever its outcome
\* (record returned, not found, failure, blocking); with use_s3 = False it
\* writes no archive object; and no call changes a queue entry
C35_FlagsGuardWrites ==
    [][fetches' # fetches =>
          /\ ~ fetch_log'.use_db => UNCHANGED <<queue, bronze, current, daily, events>>
          /\ ~ fetch_log'.use_s3 => UNCHANGED archive
          /\ UNCHANGED queue]_vars

\* a call without persistence met a 404 for a listing that an earlier call
\* had stored as active and that is in the queue: the row is still active
C35_Witness ==
    /\ fetch_log # << >>
    /\ ~ fetch_log.use_db
    /\ ~ fetch_log.use_s3
    /\ fetch_log.status = 404
    /\ fetch_log.result = "none"
    /\ fetch_log.listing_id \in DOMAIN queue
    /\ fetch_log.listing_id \in DOMAIN current
    /\ current[fetch_log.listing_id].is_active
    /\ archive # {}

\* C38: a blocked response is never persisted: when the detector flags the
\* fetched page, fetch_single_listing writes no archive object, no bronze row
\* and changes nothing in silver, raises the blocking error, and the
\* StatsCollector counts the fetch as blocked, not as fetched, parsed or failed
C38_BlockedNotPersisted ==
    [][(fetches' # fetches /\ fetch_log'.flagged) =>
          /\ UNCHANGED <<archive, bronze, current, daily, events>>
          /\ fetch_log'.result = "blocked"
          /\ fetch_log'.stats =>
                counts' = [counts EXCEPT !.blocked = @ + 1]
          /\ ~ fetch_log'.stats => UNCHANGED counts]_vars

\* a flagged fetch with both flags set and a collector, after a stored one
C38_Witness ==
    /\ fetch_log # << >>
    /\ fetch_log.flagged
    /\ fetch_log.use_db
    /\ fetch_log.use_s3
    /\ fetch_log.stats
    /\ fetch_log.result = "blocked"
    /\ counts = [fetched |-> 1, parsed |-> 1, failed |-> 0, blocked |-> 1]
    /\ Cardinality(archive) = 1
    /\ Cardinality(bronze) = 1
====
